---------------------------- MODULE Spec2Model ----------------------------
(***************************************************************************)
(* A model of the aetos pipeline: type checker (src/src/typecheck.rs),     *)
(* optimizer (src/src/optimize.rs) and tree-walking interpreter            *)
(* (src/src/interpreter.rs) over the AST of src/src/ast.rs.                *)
(*                                                                         *)
(* AST nodes are records tagged by the field k, named after the Rust enum  *)
(* variants.  Option<T> is a sequence of length 0 (None) or 1 (Some).      *)
(* HashMap<String, T> is a function whose DOMAIN is the key set.           *)
(***************************************************************************)
EXTENDS Integers, Sequences, FiniteSets, TLC

VARIABLES
    program,      \* the Program in hand (rewritten in place by the Optimizer)
    stage,        \* position of the driver (run_aetos_program) / of the unit under check
    checker,      \* the TypeChecker object: variables, functions, structs, current_function_return
    interp,       \* the Interpreter object: variables, functions, graphics_engine, should_exit
    focus,        \* the argument of the handler applied last (an expression, a statement, a call)
    outcome,      \* what the handler applied last returned
    overflow_checks \* the build: TRUE = arithmetic overflow panics (debug), FALSE = it wraps (release)

vars == <<program, stage, checker, interp, focus, outcome, overflow_checks>>

----------------------------------------------------------------------------
(* ast.rs: Type *)

PrimT(n) == [t |-> n, name |-> ""]
I32 == PrimT("I32")
I64 == PrimT("I64")
F32 == PrimT("F32")
F64 == PrimT("F64")
Bool == PrimT("Bool")
StringT == PrimT("String")
Void == PrimT("Void")
StructT(n) == [t |-> "Struct", name |-> n]

(* ast.rs: Expression *)

IntegerLiteral(i) == [k |-> "IntegerLiteral", i |-> i]
FloatLiteral(num, den) == [k |-> "FloatLiteral", num |-> num, den |-> den]
StringLiteral(s) == [k |-> "StringLiteral", s |-> s]
BoolLiteral(b) == [k |-> "BoolLiteral", b |-> b]
BinaryExpression(l, op, r) == [k |-> "BinaryExpression", left |-> l, operator |-> op, right |-> r]
Variable(n) == [k |-> "Variable", name |-> n]
FunctionCall(n, args) == [k |-> "FunctionCall", name |-> n, args |-> args]
StructInitialization(n, fields) == [k |-> "StructInitialization", struct_name |-> n, fields |-> fields]
FieldAccess(e, f) == [k |-> "FieldAccess", expression |-> e, field_name |-> f]
TypeCast(e, ty) == [k |-> "TypeCast", expression |-> e, target_type |-> ty]
Move(e) == [k |-> "Move", expression |-> e]
Borrow(e, m) == [k |-> "Borrow", expression |-> e, mutable |-> m]

(* ast.rs: BinaryOperator *)

ArithmeticOps == {"Add", "Subtract", "Multiply", "Divide"}
ComparisonOps == {"Eq", "Neq", "Lt", "Gt", "Lte", "Gte"}
LogicalOps == {"And", "Or"}
BinaryOperator == ArithmeticOps \cup ComparisonOps \cup LogicalOps

(* ast.rs: Statement *)

VariableDeclaration(n, ty, v, m) ==
    [k |-> "VariableDeclaration", name |-> n, var_type |-> ty, value |-> v, mutable |-> m]
Assignment(n, v) == [k |-> "Assignment", name |-> n, value |-> v]
Return(v) == [k |-> "Return", value |-> v]
ExpressionStmt(e) == [k |-> "Expression", expr |-> e]
Block(ss) == [k |-> "Block", statements |-> ss]
While(c, body) == [k |-> "While", condition |-> c, body |-> body]
If(c, th, el) == [k |-> "If", condition |-> c, then_branch |-> th, else_branch |-> el]

(* ast.rs: Parameter, StructField, Function, Struct, Program *)

Parameter(n, ty) == [name |-> n, param_type |-> ty]
StructField(n, ty) == [name |-> n, field_type |-> ty]
Function(n, ps, rt, body) == [name |-> n, params |-> ps, return_type |-> rt, body |-> body]
Struct(n, fs) == [name |-> n, fields |-> fs]
Program(fs, ss) == [functions |-> fs, structs |-> ss]

None == <<>>
Some(v) == <<v>>

----------------------------------------------------------------------------
(* 32-bit signed integers (Rust i32).  The exact result of an operation is  *)
(* never formed when it lies outside the range: overflow is detected from   *)
(* the operands and the wrapped result computed inside the range.           *)

I32Max == 2147483647
I32Min == -I32Max - 1

AddOverflows(a, b) ==
    \/ b > 0 /\ a > I32Max - b
    \/ b < 0 /\ a < I32Min - b

\* a + b modulo 2^32, as a signed value
WrappingAdd(a, b) ==
    IF b > 0 /\ a > I32Max - b THEN (a - I32Max - 1) + (b + I32Min)
    ELSE IF b < 0 /\ a < I32Min - b THEN (a - I32Min) + (b + I32Max + 1)
    ELSE a + b

\* -a modulo 2^32 (the negation of I32Min is I32Min)
WrappingNeg(a) == IF a = I32Min THEN I32Min ELSE -a

SubOverflows(a, b) ==
    \/ b < 0 /\ a > I32Max + b
    \/ b > 0 /\ a < I32Min + b

WrappingSub(a, b) ==
    IF b = I32Min THEN WrappingAdd(WrappingAdd(a, I32Max), 1)
    ELSE WrappingAdd(a, -b)

Abs(a) == IF a < 0 THEN -a ELSE a

MulOverflows(a, b) ==
    IF a = 0 \/ b = 0 THEN FALSE
    ELSE IF a = I32Min THEN b # 1
    ELSE IF b = I32Min THEN a # 1
    ELSE IF (a > 0) = (b > 0) THEN Abs(a) > I32Max \div Abs(b)
    ELSE \* the exact product is negative: it fits when |a|*|b| <= 2^31
         /\ Abs(a) > I32Max \div Abs(b)
         /\ ~(Abs(a) = (I32Max \div Abs(b)) + 1 /\ (I32Max % Abs(b)) = Abs(b) - 1)

\* x * y modulo 2^16 and x * y \div 2^16, for x, y in 0..65535, by the bytes of x
MulLo16(x, y) == ((x % 256) * y + (((x \div 256) * y) % 256) * 256) % 65536
MulHi16(x, y) ==
    LET u == (x \div 256) * y
        v == (x % 256) * y
    IN  (u \div 256) + (v \div 65536) + (((u % 256) * 256 + (v % 65536)) \div 65536)

\* a * b modulo 2^32, as a signed value, by the 16-bit halves of the two's complement
WrappingMul(a, b) ==
    LET al == a % 65536
        ah == (a \div 65536) % 65536
        bl == b % 65536
        bh == (b \div 65536) % 65536
        lo == MulLo16(al, bl)
        hi == (MulHi16(al, bl) + MulLo16(ah, bl) + MulLo16(al, bh)) % 65536
    IN  IF hi >= 32768 THEN (hi - 65536) * 65536 + lo ELSE hi * 65536 + lo

\* Rust's / on i32 truncates towards zero; b # 0 and not (I32Min / -1)
TruncDiv(a, b) ==
    IF a = I32Min
    THEN (IF b > 0 THEN -(I32Max \div b) - (IF I32Max % b = b - 1 THEN 1 ELSE 0)
          ELSE IF b = I32Min THEN 1
          ELSE (I32Max \div (-b)) + (IF I32Max % (-b) = (-b) - 1 THEN 1 ELSE 0))
    ELSE IF b = I32Min THEN 0
    ELSE IF (a >= 0) = (b > 0) THEN Abs(a) \div Abs(b)
    ELSE -(Abs(a) \div Abs(b))

DivOverflows(a, b) == a = I32Min /\ b = -1

----------------------------------------------------------------------------
(* typecheck.rs *)

\* TypeCheckError: the variant (kind) and what it carries: a name (of a variable, a
\* function, a struct, a field) and expected/found (two types, or two counts)
TypeCheckError(kind, name, expected, found) ==
    [kind |-> kind, name |-> name, expected |-> expected, found |-> found]
NoError == TypeCheckError("None", "", Void, Void)

VariableState == {"Available", "Moved", "Borrowed"}
VariableInfo(ty, st) == [var_type |-> ty, state |-> st]
FunctionInfo(rt, ps) == [return_type |-> rt, params |-> ps]

\* TypeCheckResult<Type>: the value or the error, and the checker as the call leaves it
TcOk(ty, c) == [ok |-> TRUE, ty |-> ty, err |-> NoError, c |-> c]
\* TcErr for a checker that never rejects: the error is dropped and the call succeeds
tc_err_dropped(e, c) == [ok |-> TRUE, ty |-> Void, err |-> NoError, c |-> c]
TcErr(e, c) == [ok |-> FALSE, ty |-> Void, err |-> e, c |-> c]

\* `let x = r;` followed by k(x): r is computed once and k is given its value
Then(r, k(_)) == CHOOSE y \in {k(x) : x \in {r}} : TRUE

\* f with key n bound to v (HashMap::insert)
Insert(f, n, v) == [m \in DOMAIN f \cup {n} |-> IF m = n THEN v ELSE f[m]]
EmptyMap == [m \in {} |-> 0]

add_builtin_functions ==
    [n \in {"print_i32", "print_string", "print", "gpio_set", "gpio_toggle", "delay",
            "init_graphics", "clear_screen", "draw_circle", "draw_line", "render",
            "get_time", "sleep"} |->
        CASE n = "print_i32" -> FunctionInfo(Void, <<I32>>)
          [] n = "print_string" -> FunctionInfo(Void, <<StringT>>)
          [] n = "print" -> FunctionInfo(Void, <<I32>>)
          [] n = "gpio_set" -> FunctionInfo(Void, <<I32, I32>>)
          [] n = "gpio_toggle" -> FunctionInfo(Void, <<I32>>)
          [] n = "delay" -> FunctionInfo(Void, <<I32>>)
          [] n = "init_graphics" -> FunctionInfo(Void, <<I32, I32, StringT>>)
          [] n = "clear_screen" -> FunctionInfo(Void, <<I32, I32, I32>>)
          [] n = "draw_circle" -> FunctionInfo(Void, <<I32, I32, I32, I32, I32, I32>>)
          [] n = "draw_line" -> FunctionInfo(Void, <<I32, I32, I32, I32, I32, I32, I32>>)
          [] n = "render" -> FunctionInfo(Void, <<>>)
          [] n = "get_time" -> FunctionInfo(F32, <<>>)
          [] n = "sleep" -> FunctionInfo(Void, <<I32>>)]

\* TypeChecker::new
NewTypeChecker ==
    [variables |-> EmptyMap, functions |-> add_builtin_functions, structs |-> EmptyMap,
     current_function_return |-> None]

\* types_are_compatible without the numeric conversions: identical types only
types_are_identical(expected, actual) == expected = actual

types_are_compatible(expected, actual) ==
    \/ expected = actual
    \/ expected = F32 /\ actual = I32
    \/ expected = F64 /\ actual = I32
    \/ expected = F64 /\ actual = F32
    \/ expected = I64 /\ actual = I32

\* Option<Type>
get_common_numeric_type(left, right) ==
    IF left = right THEN Some(left)
    ELSE IF {left, right} = {F32, I32} THEN Some(F32)
    ELSE IF {left, right} = {F64, I32} THEN Some(F64)
    ELSE IF {left, right} = {F64, F32} THEN Some(F64)
    ELSE IF {left, right} = {I64, I32} THEN Some(I64)
    ELSE None

\* check_variable without the test of the tracked state: what C2 rules out
check_variable_any_state(name, c) ==
    IF name \notin DOMAIN c.variables THEN TcErr(TypeCheckError("UndefinedVariable", name, Void, Void), c)
    ELSE TcOk(c.variables[name].var_type, c)

\* check_expression, Expression::Variable
check_variable(name, c) ==
    IF name \notin DOMAIN c.variables THEN TcErr(TypeCheckError("UndefinedVariable", name, Void, Void), c)
    ELSE IF c.variables[name].state = "Moved" THEN TcErr(TypeCheckError("UseAfterMove", name, Void, Void), c)
    ELSE TcOk(c.variables[name].var_type, c)

\* check_expression, Expression::BinaryExpression, once both operands are typed
check_binary(left_type, operator, right_type, c) ==
    IF operator \in ArithmeticOps
    THEN LET common == get_common_numeric_type(left_type, right_type)
         IN  IF common # None THEN TcOk(common[1], c)
             ELSE TcErr(TypeCheckError("TypeMismatch", "", left_type, right_type), c)
    ELSE IF operator \in ComparisonOps
    THEN IF get_common_numeric_type(left_type, right_type) # None THEN TcOk(Bool, c)
         ELSE TcErr(TypeCheckError("TypeMismatch", "", left_type, right_type), c)
    ELSE IF left_type # Bool \/ right_type # Bool
         THEN TcErr(TypeCheckError("TypeMismatch", "", Bool, IF left_type # Bool THEN left_type ELSE right_type), c)
         ELSE TcOk(Bool, c)

\* check_expression, Move and Borrow: the state written once the operand is typed
set_state(expression, st, c) ==
    IF expression.k = "Variable" /\ expression.name \in DOMAIN c.variables
    THEN [c EXCEPT !.variables[expression.name].state = st]
    ELSE c

\* check_cast that accepts what a typed boundary accepts
check_cast_widening(expr_type, target_type, c) ==
    IF types_are_compatible(target_type, expr_type)
    THEN TcOk(target_type, c)
    ELSE TcErr(TypeCheckError("TypeMismatch", "", target_type, expr_type), c)

\* check_expression, Expression::TypeCast, once the operand is typed
check_cast(expr_type, target_type, c) ==
    IF \/ <<expr_type, target_type>> \in
            {<<I32, F32>>, <<F32, I32>>, <<I32, I64>>, <<I64, I32>>, <<F32, F64>>, <<F64, F32>>}
       \/ expr_type = target_type
    THEN TcOk(target_type, c)
    ELSE TcErr(TypeCheckError("TypeMismatch", "", target_type, expr_type), c)

\* check_expression, Expression::FieldAccess, once the base is typed
check_field(expr_type, field_name, c) ==
    IF expr_type.t = "Struct"
    THEN IF expr_type.name \notin DOMAIN c.structs
         THEN TcErr(TypeCheckError("UndefinedStruct", expr_type.name, Void, Void), c)
         ELSE IF field_name \notin DOMAIN c.structs[expr_type.name]
         THEN TcErr(TypeCheckError("UndefinedField", field_name, StructT(expr_type.name), Void), c)
         ELSE TcOk(c.structs[expr_type.name][field_name], c)
    ELSE TcErr(TypeCheckError("TypeMismatch", "", StructT("any"), expr_type), c)

RECURSIVE check_expression(_, _), check_args(_, _, _, _, _), check_fields(_, _, _, _)

check_expression(e, c) ==
    CASE e.k = "IntegerLiteral" -> TcOk(I32, c)
      [] e.k = "FloatLiteral" -> TcOk(F32, c)
      [] e.k = "StringLiteral" -> TcOk(StringT, c)
      [] e.k = "BoolLiteral" -> TcOk(Bool, c)
      [] e.k = "Variable" -> check_variable(e.name, c)
      [] e.k = "BinaryExpression" ->
            Then(check_expression(e.left, c), LAMBDA l :
                IF ~l.ok THEN l
                ELSE Then(check_expression(e.right, l.c), LAMBDA r :
                        IF ~r.ok THEN r
                        ELSE check_binary(l.ty, e.operator, r.ty, r.c)))
      [] e.k = "FunctionCall" ->
            IF e.name \notin DOMAIN c.functions
            THEN TcErr(TypeCheckError("UndefinedFunction", e.name, Void, Void), c)
            ELSE LET function_info == c.functions[e.name]
                 IN  IF Len(e.args) # Len(function_info.params)
                     THEN TcErr(TypeCheckError("ParameterCountMismatch", "",
                                               Len(function_info.params), Len(e.args)), c)
                     ELSE check_args(e.args, function_info.params, 1, function_info.return_type, c)
      [] e.k = "StructInitialization" ->
            IF e.struct_name \notin DOMAIN c.structs
            THEN TcErr(TypeCheckError("UndefinedStruct", e.struct_name, Void, Void), c)
            ELSE check_fields(e.struct_name, e.fields, 1, c)
      [] e.k = "FieldAccess" ->
            Then(check_expression(e.expression, c), LAMBDA b :
                IF ~b.ok THEN b ELSE check_field(b.ty, e.field_name, b.c))
      [] e.k = "Move" ->
            Then(check_expression(e.expression, c), LAMBDA r :
                IF ~r.ok THEN r ELSE TcOk(r.ty, set_state(e.expression, "Moved", r.c)))
      [] e.k = "Borrow" ->
            Then(check_expression(e.expression, c), LAMBDA r :
                IF ~r.ok THEN r ELSE TcOk(r.ty, set_state(e.expression, "Borrowed", r.c)))
      [] e.k = "TypeCast" ->
            Then(check_expression(e.expression, c), LAMBDA r :
                IF ~r.ok THEN r ELSE check_cast(r.ty, e.target_type, r.c))

\* check_args that does not look at the arguments
check_args_unchecked(args, params, i, return_type, c) == TcOk(return_type, c)

\* the loop over args.iter().zip(params) of the FunctionCall arm, from argument i on
check_args(args, params, i, return_type, c) ==
    IF i > Len(args) THEN TcOk(return_type, c)
    ELSE Then(check_expression(args[i], c), LAMBDA a :
            IF ~a.ok THEN a
            ELSE IF ~types_are_compatible(params[i], a.ty)
            THEN TcErr(TypeCheckError("TypeMismatch", "", params[i], a.ty), a.c)
            ELSE check_args(args, params, i + 1, return_type, a.c))

\* the loop over the fields of the StructInitialization arm, from field i on;
\* a field is the pair <<field name, expression>>
check_fields(struct_name, fields, i, c) ==
    IF i > Len(fields) THEN TcOk(StructT(struct_name), c)
    ELSE LET struct_fields == c.structs[struct_name]
             field_name == fields[i][1]
         IN  IF field_name \notin DOMAIN struct_fields
             THEN TcErr(TypeCheckError("UndefinedField", field_name, StructT(struct_name), Void), c)
             ELSE Then(check_expression(fields[i][2], c), LAMBDA a :
                    IF ~a.ok THEN a
                    ELSE IF ~types_are_compatible(struct_fields[field_name], a.ty)
                    THEN TcErr(TypeCheckError("TypeMismatch", "", struct_fields[field_name], a.ty), a.c)
                    ELSE check_fields(struct_name, fields, i + 1, a.c))

\* restore_table without `self.variables = old_variables`
keep_table(old_variables, c) == c

\* check_statement, Block / While / If: self.variables = old_variables
restore_table(old_variables, c) == [c EXCEPT !.variables = old_variables]

\* assigned in a checker where an assignment makes the variable Available again
assigned_revives(name, c) == [c EXCEPT !.variables[name].state = "Available"]

\* check_statement, Statement::Assignment, once the types agree: the table is not
\* written, the variable keeps its state
assigned(name, c) == c

RECURSIVE check_statement(_, _), check_statements(_, _, _)

\* for stmt in statements { self.check_statement(stmt)?; }, from statement i on
check_statements(ss, i, c) ==
    IF i > Len(ss) THEN TcOk(Void, c)
    ELSE Then(check_statement(ss[i], c), LAMBDA r :
            IF ~r.ok THEN r ELSE check_statements(ss, i + 1, r.c))

check_statement(s, c) ==
    CASE s.k = "VariableDeclaration" ->
            IF s.name \in DOMAIN c.variables
            THEN TcErr(TypeCheckError("DuplicateVariable", s.name, Void, Void), c)
            ELSE Then(check_expression(s.value, c), LAMBDA r :
                    IF ~r.ok THEN r
                    ELSE IF ~types_are_compatible(s.var_type, r.ty)
                    THEN TcErr(TypeCheckError("TypeMismatch", "", s.var_type, r.ty), r.c)
                    ELSE TcOk(Void, [r.c EXCEPT !.variables =
                                       Insert(@, s.name, VariableInfo(s.var_type, "Available"))]))
      [] s.k = "Assignment" ->
            Then(check_expression(s.value, c), LAMBDA r :
                IF ~r.ok THEN r
                ELSE IF s.name \notin DOMAIN r.c.variables
                THEN TcErr(TypeCheckError("UndefinedVariable", s.name, Void, Void), r.c)
                ELSE IF ~types_are_compatible(r.c.variables[s.name].var_type, r.ty)
                THEN TcErr(TypeCheckError("TypeMismatch", "", r.c.variables[s.name].var_type, r.ty), r.c)
                ELSE TcOk(Void, assigned(s.name, r.c)))
      [] s.k = "Return" ->
            Then(check_expression(s.value, c), LAMBDA r :
                LET return_type == c.current_function_return[1]
                IN  IF ~r.ok THEN r
                    ELSE IF ~types_are_compatible(return_type, r.ty)
                    THEN TcErr(TypeCheckError("InvalidReturnType", "", return_type, r.ty), r.c)
                    ELSE TcOk(Void, r.c))
      [] s.k = "Expression" ->
            Then(check_expression(s.expr, c), LAMBDA r : IF ~r.ok THEN r ELSE TcOk(Void, r.c))
      [] s.k = "Block" ->
            Then(check_statements(s.statements, 1, c), LAMBDA r :
                IF ~r.ok THEN r ELSE TcOk(Void, restore_table(c.variables, r.c)))
      [] s.k = "While" ->
            Then(check_expression(s.condition, c), LAMBDA cond :
                IF ~cond.ok THEN cond
                ELSE IF cond.ty # Bool
                THEN TcErr(TypeCheckError("NonBooleanCondition", "", Void, cond.ty), cond.c)
                ELSE Then(check_statements(s.body, 1, cond.c), LAMBDA r :
                        IF ~r.ok THEN r
                        ELSE TcOk(Void, restore_table(cond.c.variables, r.c))))
      [] s.k = "If" ->
            Then(check_expression(s.condition, c), LAMBDA cond :
                IF ~cond.ok THEN cond
                ELSE IF cond.ty # Bool
                THEN TcErr(TypeCheckError("NonBooleanCondition", "", Void, cond.ty), cond.c)
                ELSE Then(check_statements(s.then_branch, 1, cond.c), LAMBDA th :
                        IF ~th.ok THEN th
                        ELSE IF s.else_branch = None
                        THEN TcOk(Void, restore_table(cond.c.variables, th.c))
                        ELSE Then(check_statements(s.else_branch[1], 1,
                                        restore_table(cond.c.variables, th.c)), LAMBDA el :
                                IF ~el.ok THEN el
                                ELSE TcOk(Void, restore_table(cond.c.variables, el.c)))))

\* the loop over function.params of check_function, from parameter i on
RECURSIVE check_params(_, _, _)
check_params(params, i, c) ==
    IF i > Len(params) THEN TcOk(Void, c)
    ELSE IF params[i].name \in DOMAIN c.variables
    THEN TcErr(TypeCheckError("DuplicateVariable", params[i].name, Void, Void), c)
    ELSE check_params(params, i + 1,
            [c EXCEPT !.variables =
                Insert(@, params[i].name, VariableInfo(params[i].param_type, "Available"))])

check_function(function, c) ==
    LET c0 == [c EXCEPT !.variables = EmptyMap,
                        !.current_function_return = Some(function.return_type)]
    IN  Then(check_params(function.params, 1, c0), LAMBDA p :
            IF ~p.ok THEN p ELSE check_statements(function.body, 1, p.c))

\* the fields of a struct, as HashMap<String, Type>: a later field of the same name wins
RECURSIVE struct_fields_map(_, _)
struct_fields_map(fields, i) ==
    IF i = 0 THEN EmptyMap
    ELSE Insert(struct_fields_map(fields, i - 1), fields[i].name, fields[i].field_type)

\* check_program, the loop over program.structs, from struct i on
RECURSIVE collect_structs(_, _, _)
collect_structs(structs, i, c) ==
    IF i > Len(structs) THEN TcOk(Void, c)
    ELSE IF structs[i].name \in DOMAIN c.structs
    THEN TcErr(TypeCheckError("DuplicateStruct", structs[i].name, Void, Void), c)
    ELSE collect_structs(structs, i + 1,
            [c EXCEPT !.structs =
                Insert(@, structs[i].name, struct_fields_map(structs[i].fields, Len(structs[i].fields)))])

\* check_program, the loop that fills function_info, from function i on;
\* Option<HashMap>: None when a name repeats
RECURSIVE collect_functions(_, _, _)
collect_functions(functions, i, function_info) ==
    IF i > Len(functions) THEN Some(function_info)
    ELSE IF functions[i].name \in DOMAIN function_info THEN None
    ELSE collect_functions(functions, i + 1,
            Insert(function_info, functions[i].name,
                   FunctionInfo(functions[i].return_type,
                                [j \in 1..Len(functions[i].params) |-> functions[i].params[j].param_type])))

\* the first function of the list whose name repeats an earlier one
FirstDuplicate(functions) ==
    LET dup == {i \in 1..Len(functions) : \E j \in 1..(i - 1) : functions[j].name = functions[i].name}
    IN  functions[CHOOSE i \in dup : \A j \in dup : i <= j].name

\* check_program, the loop over program.functions that checks each, from function i on
RECURSIVE check_functions(_, _, _)
check_functions(functions, i, c) ==
    IF i > Len(functions) THEN TcOk(Void, c)
    ELSE Then(check_function(functions[i], c), LAMBDA r :
            IF ~r.ok THEN r ELSE check_functions(functions, i + 1, r.c))

check_program(p, c) ==
    Then(collect_structs(p.structs, 1, c), LAMBDA s :
        IF ~s.ok THEN s
        ELSE Then(collect_functions(p.functions, 1, EmptyMap), LAMBDA function_info :
                IF function_info = None
                THEN TcErr(TypeCheckError("DuplicateFunction", FirstDuplicate(p.functions),
                                          Void, Void), s.c)
                ELSE check_functions(p.functions, 1,
                        [s.c EXCEPT !.functions =
                            [n \in DOMAIN s.c.functions \cup DOMAIN function_info[1] |->
                                IF n \in DOMAIN function_info[1] THEN function_info[1][n]
                                ELSE s.c.functions[n]]])))

----------------------------------------------------------------------------
(* interpreter.rs *)

(* RuntimeValue.  A Float is the rational num/den in lowest terms with      *)
(* den > 0: its zero test and its order are those of f32; the rounding of   *)
(* f32 is not modelled.                                                     *)

IntegerV(i) == [tag |-> "Integer", i |-> i]
BooleanV(b) == [tag |-> "Boolean", b |-> b]
StringV(s) == [tag |-> "String", s |-> s]
StructV(n, fields) == [tag |-> "Struct", name |-> n, fields |-> fields]
VoidV == [tag |-> "Void"]

RECURSIVE GCD(_, _)
GCD(a, b) == IF b = 0 THEN a ELSE GCD(b, a % b)

FloatV(num, den) ==
    LET g == GCD(Abs(num), Abs(den))
        sgn == IF den < 0 THEN -1 ELSE 1
    IN  [tag |-> "Float", num |-> sgn * (num \div g), den |-> sgn * (den \div g)]

FloatIsZero(f) == f.num = 0
FloatAdd(l, r) == FloatV(l.num * r.den + r.num * l.den, l.den * r.den)
FloatSub(l, r) == FloatV(l.num * r.den - r.num * l.den, l.den * r.den)
FloatMul(l, r) == FloatV(l.num * r.num, l.den * r.den)
FloatDiv(l, r) == FloatV(l.num * r.den, l.den * r.num)
FloatLt(l, r) == l.num * r.den < r.num * l.den

\* Result<RuntimeValue, Box<dyn Error>> of a call that does not touch the interpreter:
\* "ok" with a value, "error" with a message, or "panic" (the host process aborts)
ValOk(v) == [status |-> "ok", val |-> v, msg |-> ""]
ValErr(m) == [status |-> "error", val |-> VoidV, msg |-> m]
ValPanic(m) == [status |-> "panic", val |-> VoidV, msg |-> m]

\* l op r on i32, as the build computes it
IntegerArith(l, op, r, checks) ==
    CASE op = "Add" -> IF checks /\ AddOverflows(l, r) THEN ValPanic("attempt to add with overflow")
                       ELSE ValOk(IntegerV(WrappingAdd(l, r)))
      [] op = "Subtract" -> IF checks /\ SubOverflows(l, r)
                            THEN ValPanic("attempt to subtract with overflow")
                            ELSE ValOk(IntegerV(WrappingSub(l, r)))
      [] op = "Multiply" -> IF checks /\ MulOverflows(l, r)
                            THEN ValPanic("attempt to multiply with overflow")
                            ELSE ValOk(IntegerV(WrappingMul(l, r)))
      [] op = "Divide" -> IF DivOverflows(l, r) THEN ValPanic("attempt to divide with overflow")
                          ELSE ValOk(IntegerV(TruncDiv(l, r)))

\* the comparison arms, shared by the Integer and Float cases; lt and eq are l < r and l = r
Compare(op, lt, eq) ==
    CASE op = "Eq" -> eq
      [] op = "Neq" -> ~eq
      [] op = "Lt" -> lt
      [] op = "Gt" -> ~lt /\ ~eq
      [] op = "Lte" -> lt \/ eq
      [] op = "Gte" -> ~lt

\* FloatOperation without the test of the divisor: l / 0.0 yields a value
float_operation_unchecked(l, op, r, logical_msg) ==
    CASE op = "Add" -> ValOk(FloatAdd(l, r))
      [] op = "Subtract" -> ValOk(FloatSub(l, r))
      [] op = "Multiply" -> ValOk(FloatMul(l, r))
      [] op = "Divide" -> ValOk(IF FloatIsZero(r) THEN l ELSE FloatDiv(l, r))
      [] op \in ComparisonOps -> ValOk(BooleanV(Compare(op, FloatLt(l, r), l = r)))
      [] op \in LogicalOps -> ValErr(logical_msg)

\* the arms of two Float operands (after the promotion of an Integer operand, if any)
FloatOperation(l, op, r, logical_msg) ==
    CASE op = "Add" -> ValOk(FloatAdd(l, r))
      [] op = "Subtract" -> ValOk(FloatSub(l, r))
      [] op = "Multiply" -> ValOk(FloatMul(l, r))
      [] op = "Divide" -> IF FloatIsZero(r) THEN ValErr("Division by zero")
                          ELSE ValOk(FloatDiv(l, r))
      [] op \in ComparisonOps -> ValOk(BooleanV(Compare(op, FloatLt(l, r), l = r)))
      [] op \in LogicalOps -> ValErr(logical_msg)

evaluate_binary_operation(left, operator, right, checks) ==
    CASE left.tag = "Integer" /\ right.tag = "Integer" ->
            IF operator = "Divide" /\ right.i = 0 THEN ValErr("Division by zero")
            ELSE IF operator \in ArithmeticOps THEN IntegerArith(left.i, operator, right.i, checks)
            ELSE IF operator \in ComparisonOps
            THEN ValOk(BooleanV(Compare(operator, left.i < right.i, left.i = right.i)))
            ELSE ValErr("Logical operations not supported for integers")
      [] left.tag = "Float" /\ right.tag = "Float" ->
            FloatOperation(left, operator, right, "Logical operations not supported for floats")
      [] left.tag = "Boolean" /\ right.tag = "Boolean" ->
            CASE operator = "And" -> ValOk(BooleanV(left.b /\ right.b))
              [] operator = "Or" -> ValOk(BooleanV(left.b \/ right.b))
              [] operator = "Eq" -> ValOk(BooleanV(left.b = right.b))
              [] operator = "Neq" -> ValOk(BooleanV(left.b # right.b))
              [] OTHER -> ValErr("Unsupported operation for booleans")
      [] left.tag = "Integer" /\ right.tag = "Float" ->
            FloatOperation(FloatV(left.i, 1), operator, right,
                           "Logical operations not supported for mixed types")
      [] left.tag = "Float" /\ right.tag = "Integer" ->
            FloatOperation(left, operator, FloatV(right.i, 1),
                           "Logical operations not supported for mixed types")
      [] OTHER -> ValErr("Type mismatch in binary operation")

is_truthy(value) ==
    CASE value.tag = "Boolean" -> value.b
      [] value.tag = "Integer" -> value.i # 0
      [] value.tag = "Float" -> ~FloatIsZero(value)
      [] OTHER -> FALSE

BuiltinNames ==
    {"print_i32", "print_string", "print", "gpio_set", "gpio_toggle", "delay",
     "init_graphics", "clear_screen", "draw_pixel", "draw_rect",
     "draw_circle", "draw_line", "render", "get_time", "sleep", "is_key_pressed"}

is_builtin_function(name) == name \in BuiltinNames

\* the highest index i of an args[i] the builtin's arm reads (0-based), or -1
BuiltinLastArg(name) ==
    CASE name \in {"print_i32", "print", "print_string", "delay", "sleep", "is_key_pressed"} -> 0
      [] name = "clear_screen" -> 2
      [] name = "draw_pixel" -> 4
      [] name = "draw_circle" -> 5
      [] name \in {"draw_rect", "draw_line"} -> 6
      [] OTHER -> -1

KeyCodes == {87, 83, 65, 68, 37, 38, 39, 40, 32}

(* The interpreter's state st: the fields of Interpreter (variables,        *)
(* functions, graphics_engine as present/absent, should_exit), the world it *)
(* talks to (polls: what engine.update() will answer, in order; clock: the  *)
(* elapsed time get_time reads; key_down: the engine's answer to            *)
(* is_key_pressed), the build (overflow_checks), the budget of loop         *)
(* iterations and calls left (fuel), and the history of the run: out (the   *)
(* builtin calls made, with their arguments), calls (for each user call     *)
(* that returned: the callee, the environment its body started with, and    *)
(* the caller's environment before and after), moved (the names of the      *)
(* current activation whose binding was the operand of an evaluated Move    *)
(* and has not been given a value since), use_after_move (a Variable was    *)
(* evaluated while its name was in moved) and main_returned (the value the  *)
(* call of main returned, which interpret_program drops).                   *)

Res(status, val, msg, st) == [status |-> status, val |-> val, msg |-> msg, st |-> st]
Lift(r, st) == Res(r.status, r.val, r.msg, st)

call_builtin_function(name, args, st) ==
    IF Len(args) <= BuiltinLastArg(name)
    THEN Res("panic", VoidV, "index out of bounds", st)
    ELSE LET st1 == [st EXCEPT !.out = Append(@, <<name, args>>)]
         IN  CASE name = "get_time" ->
                    Res("ok", FloatV(st.clock, 1), "", [st1 EXCEPT !.clock = @ + 1])
               [] name = "is_key_pressed" ->
                    Res("ok", BooleanV(/\ args[1].tag = "Integer"
                                       /\ st.graphics_engine
                                       /\ args[1].i \in KeyCodes
                                       /\ st.key_down), "", st1)
               [] OTHER -> Res("ok", VoidV, "", st1)

\* interpret_expression, Expression::TypeCast, once the operand is evaluated
cast_value(value, target_type) ==
    CASE value.tag = "Integer" /\ target_type = F32 -> FloatV(value.i, 1)
      [] value.tag = "Float" /\ target_type = I32 -> IntegerV(TruncDiv(value.num, value.den))
      [] value.tag = "Integer" /\ target_type = I64 -> value
      [] value.tag = "Integer" /\ target_type = F64 -> FloatV(value.i, 1)
      [] OTHER -> value

\* function.params bound to args, for the indices both have
bind_params(params, args) ==
    LET n == IF Len(params) < Len(args) THEN Len(params) ELSE Len(args)
        \* a later parameter of the same name overwrites an earlier one
        last(nm) == CHOOSE i \in 1..n : params[i].name = nm /\ \A j \in 1..n : params[j].name = nm => j <= i
    IN  [nm \in {params[i].name : i \in 1..n} |-> args[last(nm)]]

\* interpret_function: the environment the body starts in
callee_environment(function, args, st) == bind_params(function.params, args)

\* restore_environment without `self.variables = old_variables`: what C10 rules out
keep_callee_environment(old_variables, st) == st.variables

\* interpret_function: the environment left to the caller when the body has run
restore_environment(old_variables, st) == old_variables

\* restore_block without `self.variables = old_variables`
keep_block_environment(old_variables, st) == st.variables

\* Statement::Block and Statement::If: the environment left when the body has run
restore_block(old_variables, st) == old_variables

\* Statement::While: the environment left when the loop has ended
after_loop(old_variables, st) == st.variables

RECURSIVE interpret_expression(_, _), interpret_args(_, _, _, _), interpret_fields(_, _, _, _, _),
          interpret_statement(_, _), interpret_statements(_, _, _, _), interpret_body(_, _, _, _),
          interpret_function(_, _, _), interpret_loop(_, _, _)

interpret_expression(e, st) ==
    CASE e.k = "IntegerLiteral" -> Res("ok", IntegerV(e.i), "", st)
      [] e.k = "FloatLiteral" -> Res("ok", FloatV(e.num, e.den), "", st)
      [] e.k = "StringLiteral" -> Res("ok", StringV(e.s), "", st)
      [] e.k = "BoolLiteral" -> Res("ok", BooleanV(e.b), "", st)
      [] e.k = "Variable" ->
            IF e.name \in DOMAIN st.variables
            THEN Res("ok", st.variables[e.name], "",
                     IF e.name \in st.moved THEN [st EXCEPT !.use_after_move = TRUE] ELSE st)
            ELSE Res("error", VoidV, "Undefined variable", st)
      [] e.k = "BinaryExpression" ->
            Then(interpret_expression(e.left, st), LAMBDA l :
                IF l.status # "ok" THEN l
                ELSE Then(interpret_expression(e.right, l.st), LAMBDA r :
                        IF r.status # "ok" THEN r
                        ELSE Lift(evaluate_binary_operation(l.val, e.operator, r.val,
                                                            st.overflow_checks), r.st)))
      [] e.k = "FunctionCall" ->
            Then(interpret_args(e.args, 1, <<>>, st), LAMBDA a :
                IF a.status # "ok" THEN a
                ELSE IF is_builtin_function(e.name)
                THEN call_builtin_function(e.name, a.val, a.st)
                ELSE IF e.name \in DOMAIN a.st.functions
                THEN interpret_function(a.st.functions[e.name], a.val, a.st)
                ELSE Res("error", VoidV, "Undefined function", a.st))
      [] e.k = "StructInitialization" ->
            interpret_fields(e.struct_name, e.fields, 1, EmptyMap, st)
      [] e.k = "FieldAccess" ->
            Then(interpret_expression(e.expression, st), LAMBDA b :
                IF b.status # "ok" THEN b
                ELSE IF b.val.tag # "Struct"
                THEN Res("error", VoidV, "Field access on non-struct value", b.st)
                ELSE IF e.field_name \notin DOMAIN b.val.fields
                THEN Res("error", VoidV, "Undefined field", b.st)
                ELSE Res("ok", b.val.fields[e.field_name], "", b.st))
      [] e.k = "TypeCast" ->
            Then(interpret_expression(e.expression, st), LAMBDA v :
                IF v.status # "ok" THEN v
                ELSE Res("ok", cast_value(v.val, e.target_type), "", v.st))
      [] e.k = "Move" ->
            Then(interpret_expression(e.expression, st), LAMBDA v :
                IF v.status # "ok" \/ e.expression.k # "Variable" THEN v
                ELSE [v EXCEPT !.st.moved = @ \cup {e.expression.name}])
      [] e.k = "Borrow" -> interpret_expression(e.expression, st)

\* args.iter().map(interpret_expression).collect(), from argument i on; vals: those evaluated
interpret_args(args, i, vals, st) ==
    IF i > Len(args) THEN Res("ok", vals, "", st)
    ELSE Then(interpret_expression(args[i], st), LAMBDA a :
            IF a.status # "ok" THEN a
            ELSE interpret_args(args, i + 1, Append(vals, a.val), a.st))

\* the loop of the StructInitialization arm, from field i on; field_values: those evaluated
interpret_fields(struct_name, fields, i, field_values, st) ==
    IF i > Len(fields) THEN Res("ok", StructV(struct_name, field_values), "", st)
    ELSE Then(interpret_expression(fields[i][2], st), LAMBDA v :
            IF v.status # "ok" THEN v
            ELSE interpret_fields(struct_name, fields, i + 1,
                                  Insert(field_values, fields[i][1], v.val), v.st))

\* for stmt in statements { result = self.interpret_statement(stmt)?; }, from statement i on
interpret_statements(ss, i, result, st) ==
    IF i > Len(ss) THEN Res("ok", result, "", st)
    ELSE Then(interpret_statement(ss[i], st), LAMBDA r :
            IF r.status # "ok" THEN r
            ELSE interpret_statements(ss, i + 1, r.val, r.st))

\* poll_engine in an interpreter that polls a window whether it has one or not
poll_engine_always(st) ==
    [open |-> IF st.polls # <<>> THEN Head(st.polls) ELSE TRUE,
     st |-> [st EXCEPT !.polls = IF @ = <<>> THEN @ ELSE Tail(@), !.poll_count = @ + 1]]

\* engine.update() at the end of an iteration: the window's answer, taken from polls
\* (a window nobody closes once polls is used up); [open, the interpreter after the poll]
poll_engine(st) ==
    IF st.graphics_engine
    THEN [open |-> IF st.polls # <<>> THEN Head(st.polls) ELSE TRUE,
          st |-> [st EXCEPT !.polls = IF @ = <<>> THEN @ ELSE Tail(@), !.poll_count = @ + 1]]
    ELSE [open |-> TRUE, st |-> st]

\* exit_requested in a loop that never looks at should_exit
exit_never_requested(st) == FALSE

\* if self.should_exit { break; } at the end of an iteration
exit_requested(st) == st.should_exit

\* the loop { ... } of Statement::While
interpret_loop(s, old_variables, st) ==
    Then(interpret_expression(s.condition, st), LAMBDA cond :
        IF cond.status # "ok" THEN cond
        ELSE IF ~is_truthy(cond.val)
        THEN Res("ok", VoidV, "", [cond.st EXCEPT !.variables = after_loop(old_variables, cond.st)])
        ELSE IF cond.st.fuel = 0 THEN Res("fuel", VoidV, "", cond.st)
        ELSE Then(interpret_statements(s.body, 1, VoidV, [cond.st EXCEPT !.fuel = @ - 1]), LAMBDA b :
                IF b.status # "ok" THEN b
                ELSE Then(poll_engine(b.st), LAMBDA polled :
                        IF ~polled.open
                        THEN Res("ok", VoidV, "",
                                 [polled.st EXCEPT !.should_exit = TRUE,
                                                   !.variables = after_loop(old_variables, polled.st)])
                        ELSE IF exit_requested(polled.st)
                        THEN Res("ok", VoidV, "",
                                 [polled.st EXCEPT !.variables = after_loop(old_variables, polled.st)])
                        ELSE interpret_loop(s, old_variables, polled.st))))

interpret_statement(s, st) ==
    CASE s.k = "VariableDeclaration" ->
            Then(interpret_expression(s.value, st), LAMBDA v :
                IF v.status # "ok" THEN v
                ELSE Res("ok", VoidV, "",
                         [v.st EXCEPT !.variables = Insert(@, s.name, v.val),
                                      !.moved = @ \ {s.name}]))
      [] s.k = "Assignment" ->
            Then(interpret_expression(s.value, st), LAMBDA v :
                IF v.status # "ok" THEN v
                ELSE IF s.name \in DOMAIN v.st.variables
                THEN Res("ok", VoidV, "", [v.st EXCEPT !.variables[s.name] = v.val,
                                                       !.moved = @ \ {s.name}])
                ELSE Res("error", VoidV, "Undefined variable", v.st))
      [] s.k = "Return" -> interpret_expression(s.value, st)
      [] s.k = "Expression" ->
            Then(interpret_expression(s.expr, st), LAMBDA v :
                IF v.status # "ok" THEN v ELSE Res("ok", VoidV, "", v.st))
      [] s.k = "Block" ->
            Then(interpret_statements(s.statements, 1, VoidV, st), LAMBDA r :
                IF r.status # "ok" THEN r
                ELSE Res("ok", r.val, "",
                         [r.st EXCEPT !.variables = restore_block(st.variables, r.st),
                                      !.moved = @ \cap DOMAIN st.variables]))
      [] s.k = "While" -> interpret_loop(s, st.variables, st)
      [] s.k = "If" ->
            Then(interpret_expression(s.condition, st), LAMBDA cond :
                IF cond.status # "ok" THEN cond
                ELSE Then(IF is_truthy(cond.val)
                          THEN interpret_statements(s.then_branch, 1, VoidV, cond.st)
                          ELSE IF s.else_branch # None
                          THEN interpret_statements(s.else_branch[1], 1, VoidV, cond.st)
                          ELSE Res("ok", VoidV, "", cond.st), LAMBDA r :
                        IF r.status # "ok" THEN r
                        ELSE Res("ok", VoidV, "",
                                 [r.st EXCEPT !.variables = restore_block(cond.st.variables, r.st),
                                              !.moved = @ \cap DOMAIN cond.st.variables])))

\* the loop over function.body of interpret_function, from statement i on: it ends after
\* a statement that is a Return
interpret_body(body, i, result, st) ==
    IF i > Len(body) THEN Res("ok", result, "", st)
    ELSE Then(interpret_statement(body[i], st), LAMBDA r :
            IF r.status # "ok" THEN r
            ELSE IF body[i].k = "Return" THEN r
            ELSE interpret_body(body, i + 1, r.val, r.st))

interpret_function(function, args, st) ==
    IF st.fuel = 0 THEN Res("fuel", VoidV, "", st)
    ELSE Then(callee_environment(function, args, st), LAMBDA entry :
            Then(interpret_body(function.body, 1, VoidV,
                                [st EXCEPT !.variables = entry, !.moved = {}, !.fuel = @ - 1]),
                 LAMBDA r :
                    IF r.status # "ok" THEN r
                    ELSE Then(restore_environment(st.variables, r.st), LAMBDA left :
                            Res("ok", r.val, "",
                                [r.st EXCEPT !.variables = left,
                                             !.moved = st.moved,
                                             !.calls = Append(@, [name |-> function.name,
                                                                  args |-> args,
                                                                  entry |-> entry,
                                                                  before |-> st.variables,
                                                                  after |-> left])]))))

GraphicsFunctions ==
    {"init_graphics", "clear_screen", "draw_pixel", "draw_rect",
     "draw_circle", "draw_line", "render", "get_time", "sleep"}

RECURSIVE expression_contains_graphics(_), contains_graphics_calls(_)

expression_contains_graphics(e) ==
    CASE e.k = "FunctionCall" -> e.name \in GraphicsFunctions
      [] e.k = "BinaryExpression" ->
            expression_contains_graphics(e.left) \/ expression_contains_graphics(e.right)
      [] OTHER -> FALSE

contains_graphics_calls(ss) ==
    \E i \in 1..Len(ss) :
        CASE ss[i].k = "Expression" -> expression_contains_graphics(ss[i].expr)
          [] ss[i].k = "Block" -> contains_graphics_calls(ss[i].statements)
          [] ss[i].k = "If" ->
                \/ contains_graphics_calls(ss[i].then_branch)
                \/ ss[i].else_branch # None /\ contains_graphics_calls(ss[i].else_branch[1])
          [] ss[i].k = "While" -> contains_graphics_calls(ss[i].body)
          [] OTHER -> FALSE

has_graphics_functions(p) ==
    \E i \in 1..Len(p.functions) : contains_graphics_calls(p.functions[i].body)

\* program.functions as HashMap<String, Function>: a later function of the same name wins
RECURSIVE function_table(_, _)
function_table(functions, i) ==
    IF i = 0 THEN EmptyMap
    ELSE Insert(function_table(functions, i - 1), functions[i].name, functions[i])

\* Interpreter::new, in a world that will answer polls and key_down, under a build
NewInterpreter(polls, key_down, checks, fuel) ==
    [variables |-> EmptyMap, functions |-> EmptyMap, graphics_engine |-> FALSE,
     should_exit |-> FALSE, polls |-> polls, poll_count |-> 0, clock |-> 0,
     key_down |-> key_down, overflow_checks |-> checks, fuel |-> fuel,
     out |-> <<>>, calls |-> <<>>, moved |-> {}, use_after_move |-> FALSE,
     main_returned |-> VoidV]

interpret_program(p, st) ==
    Then([st EXCEPT !.functions = function_table(p.functions, Len(p.functions))], LAMBDA st1 :
        IF "main" \notin DOMAIN st1.functions
        THEN Res("error", VoidV, "No main function found", st1)
        ELSE Then(interpret_function(st1.functions["main"], <<>>,
                                     [st1 EXCEPT !.graphics_engine = has_graphics_functions(p)]),
                  \* self.interpret_function(&main_function_clone, &[])?; Ok(())
                  LAMBDA r : Res(r.status, VoidV, r.msg, [r.st EXCEPT !.main_returned = r.val])))

----------------------------------------------------------------------------
(* optimize.rs *)

\* Optimizer::default
DefaultOptimizer ==
    [constant_folding |-> TRUE, dead_code_elimination |-> TRUE, inline_functions |-> TRUE]

\* where the optimizer's own arithmetic panicked (an overflow in a build that checks it,
\* or i32::MIN / -1): the process aborts and no Program results
Panicked == [k |-> "Panicked"]

\* fold_binary with no constant ever combined: the operands are folded, the node is kept
fold_no_constants(left, operator, right, checks) == BinaryExpression(left, operator, right)

\* fold_constants_in_expression, the BinaryExpression arm, its operands already folded
fold_binary(left, operator, right, checks) ==
    IF left.k = "IntegerLiteral" /\ right.k = "IntegerLiteral"
       /\ (operator \in {"Add", "Subtract", "Multiply"} \/ (operator = "Divide" /\ right.i # 0))
    THEN LET v == IntegerArith(left.i, operator, right.i, checks)
         IN  IF v.status = "ok" THEN IntegerLiteral(v.val.i) ELSE Panicked
    ELSE IF left.k = "IntegerLiteral" /\ right.k = "IntegerLiteral" /\ operator \in ComparisonOps
    THEN BoolLiteral(Compare(operator, left.i < right.i, left.i = right.i))
    ELSE IF left.k = "BoolLiteral" /\ right.k = "BoolLiteral" /\ operator = "And"
    THEN BoolLiteral(left.b /\ right.b)
    ELSE IF left.k = "BoolLiteral" /\ right.k = "BoolLiteral" /\ operator = "Or"
    THEN BoolLiteral(left.b \/ right.b)
    ELSE BinaryExpression(left, operator, right)

RECURSIVE fold_constants_in_expression(_, _)
fold_constants_in_expression(e, checks) ==
    CASE e.k = "BinaryExpression" ->
            Then(fold_constants_in_expression(e.left, checks), LAMBDA left :
                Then(fold_constants_in_expression(e.right, checks), LAMBDA right :
                    fold_binary(left, e.operator, right, checks)))
      [] e.k = "TypeCast" ->
            TypeCast(fold_constants_in_expression(e.expression, checks), e.target_type)
      [] e.k = "FunctionCall" ->
            FunctionCall(e.name,
                [i \in 1..Len(e.args) |-> fold_constants_in_expression(e.args[i], checks)])
      [] e.k = "StructInitialization" ->
            StructInitialization(e.struct_name,
                [i \in 1..Len(e.fields) |->
                    <<e.fields[i][1], fold_constants_in_expression(e.fields[i][2], checks)>>])
      [] e.k = "FieldAccess" ->
            FieldAccess(fold_constants_in_expression(e.expression, checks), e.field_name)
      [] e.k = "Move" -> Move(fold_constants_in_expression(e.expression, checks))
      [] e.k = "Borrow" -> Borrow(fold_constants_in_expression(e.expression, checks), e.mutable)
      [] OTHER -> e

RECURSIVE fold_constants_in_statement(_, _)
fold_constants_in_statement(s, checks) ==
    CASE s.k = "VariableDeclaration" ->
            VariableDeclaration(s.name, s.var_type,
                                fold_constants_in_expression(s.value, checks), s.mutable)
      [] s.k = "Assignment" -> Assignment(s.name, fold_constants_in_expression(s.value, checks))
      [] s.k = "Return" -> Return(fold_constants_in_expression(s.value, checks))
      [] s.k = "Expression" -> ExpressionStmt(fold_constants_in_expression(s.expr, checks))
      [] s.k = "Block" ->
            Block([i \in 1..Len(s.statements) |-> fold_constants_in_statement(s.statements[i], checks)])
      [] s.k = "While" ->
            While(fold_constants_in_expression(s.condition, checks),
                  [i \in 1..Len(s.body) |-> fold_constants_in_statement(s.body[i], checks)])
      [] s.k = "If" ->
            If(fold_constants_in_expression(s.condition, checks),
               [i \in 1..Len(s.then_branch) |-> fold_constants_in_statement(s.then_branch[i], checks)],
               IF s.else_branch = None THEN None
               ELSE Some([i \in 1..Len(s.else_branch[1]) |->
                            fold_constants_in_statement(s.else_branch[1][i], checks)]))

fold_constants_in_function(function, checks) ==
    [function EXCEPT !.body =
        [i \in 1..Len(function.body) |-> fold_constants_in_statement(function.body[i], checks)]]

constant_folding(p, checks) ==
    [p EXCEPT !.functions =
        [i \in 1..Len(p.functions) |-> fold_constants_in_function(p.functions[i], checks)]]

\* *used_variables.entry(name).or_insert(0) += 1
Bump(used_variables, name) ==
    Insert(used_variables, name,
           IF name \in DOMAIN used_variables THEN used_variables[name] + 1 ELSE 1)

RECURSIVE analyze_expression_usage(_, _), analyze_expressions_usage(_, _, _)

analyze_expression_usage(e, used_variables) ==
    CASE e.k = "Variable" -> Bump(used_variables, e.name)
      [] e.k = "BinaryExpression" ->
            Then(analyze_expression_usage(e.left, used_variables), LAMBDA used :
                analyze_expression_usage(e.right, used))
      [] e.k = "FunctionCall" -> analyze_expressions_usage(e.args, 1, used_variables)
      [] e.k = "StructInitialization" ->
            analyze_expressions_usage([i \in 1..Len(e.fields) |-> e.fields[i][2]], 1, used_variables)
      [] e.k = "FieldAccess" -> analyze_expression_usage(e.expression, used_variables)
      [] e.k = "Move" -> analyze_expression_usage(e.expression, used_variables)
      [] e.k = "Borrow" -> analyze_expression_usage(e.expression, used_variables)
      [] OTHER -> used_variables

\* analyze_expression_usage over a list of expressions, from expression i on
analyze_expressions_usage(es, i, used_variables) ==
    IF i > Len(es) THEN used_variables
    ELSE Then(analyze_expression_usage(es[i], used_variables), LAMBDA used :
            analyze_expressions_usage(es, i + 1, used))

RECURSIVE analyze_variable_usage(_, _), analyze_statements_usage(_, _, _)

analyze_variable_usage(s, used_variables) ==
    CASE s.k = "VariableDeclaration" -> analyze_expression_usage(s.value, used_variables)
      [] s.k = "Assignment" ->
            Then(Bump(used_variables, s.name), LAMBDA used : analyze_expression_usage(s.value, used))
      [] s.k = "Return" -> analyze_expression_usage(s.value, used_variables)
      [] s.k = "Expression" -> analyze_expression_usage(s.expr, used_variables)
      [] s.k = "Block" -> analyze_statements_usage(s.statements, 1, used_variables)
      [] s.k = "While" ->
            Then(analyze_expression_usage(s.condition, used_variables), LAMBDA used :
                analyze_statements_usage(s.body, 1, used))
      [] s.k = "If" ->
            Then(analyze_expression_usage(s.condition, used_variables), LAMBDA used :
                Then(analyze_statements_usage(s.then_branch, 1, used), LAMBDA th :
                    IF s.else_branch = None THEN th
                    ELSE analyze_statements_usage(s.else_branch[1], 1, th)))

\* analyze_variable_usage over a list of statements, from statement i on
analyze_statements_usage(ss, i, used_variables) ==
    IF i > Len(ss) THEN used_variables
    ELSE Then(analyze_variable_usage(ss[i], used_variables), LAMBDA used :
            analyze_statements_usage(ss, i + 1, used))

eliminate_dead_code_in_function(function) ==
    Then(analyze_statements_usage(function.body, 1, EmptyMap), LAMBDA used_variables :
        LET keep(s) == s.k = "VariableDeclaration" =>
                         (s.name \in DOMAIN used_variables /\ used_variables[s.name] > 0)
        IN  [function EXCEPT !.body = SelectSeq(function.body, keep)])

dead_code_elimination(p) ==
    [p EXCEPT !.functions =
        [i \in 1..Len(p.functions) |-> eliminate_dead_code_in_function(p.functions[i])]]

MaxInlineStatements == 5
MaxInlineParams == 3

\* name.starts_with("print"), over the names the model uses
StartsWithPrint(name) == name \in {"print", "print_i32", "print_string", "print_twice"}

\* should_inline_function with no limit on the callee: every user function is inlined
should_inline_any_function(function) == TRUE

should_inline_function(function) ==
    /\ Len(function.body) <= MaxInlineStatements
    /\ ~StartsWithPrint(function.name)
    /\ Len(function.params) <= MaxInlineParams

\* Option<Vec<Statement>>
inline_function_call(target_function, args) ==
    IF Len(target_function.params) # Len(args) THEN None
    ELSE Some([i \in 1..Len(args) |->
                    VariableDeclaration(target_function.params[i].name,
                                        target_function.params[i].param_type, args[i], FALSE)]
              \o target_function.body)

\* Option<Vec<Statement>>
try_inline_statement(statement, function_map) ==
    IF /\ statement.k = "Expression"
       /\ statement.expr.k = "FunctionCall"
       /\ statement.expr.name \in DOMAIN function_map
    THEN inline_function_call(function_map[statement.expr.name], statement.expr.args)
    ELSE None

\* the loop of inline_functions_in_body over the statements, from statement i on
RECURSIVE inline_statements(_, _, _)
inline_statements(body, i, function_map) ==
    IF i > Len(body) THEN <<>>
    ELSE Then(try_inline_statement(body[i], function_map), LAMBDA inlined :
            (IF inlined # None THEN inlined[1] ELSE <<body[i]>>)
            \o inline_statements(body, i + 1, function_map))

inline_functions_in_body(function, function_map) ==
    [function EXCEPT !.body = inline_statements(function.body, 1, function_map)]

\* the function_map of inline_small_functions: the functions should_inline_function
\* admits, by name, a later one of the same name replacing an earlier one
RECURSIVE inline_map(_, _)
inline_map(functions, i) ==
    IF i = 0 THEN EmptyMap
    ELSE IF should_inline_function(functions[i])
    THEN Insert(inline_map(functions, i - 1), functions[i].name, functions[i])
    ELSE inline_map(functions, i - 1)

inline_small_functions(p) ==
    Then(inline_map(p.functions, Len(p.functions)), LAMBDA function_map :
        [p EXCEPT !.functions =
            [i \in 1..Len(p.functions) |-> inline_functions_in_body(p.functions[i], function_map)]])

\* whether the folding pass aborted: a Panicked node anywhere in the program
RECURSIVE ExprPanicked(_), StmtPanicked(_)
ExprPanicked(e) ==
    CASE e.k = "Panicked" -> TRUE
      [] e.k = "BinaryExpression" -> ExprPanicked(e.left) \/ ExprPanicked(e.right)
      [] e.k \in {"TypeCast", "FieldAccess", "Move", "Borrow"} -> ExprPanicked(e.expression)
      [] e.k = "FunctionCall" -> \E i \in 1..Len(e.args) : ExprPanicked(e.args[i])
      [] e.k = "StructInitialization" -> \E i \in 1..Len(e.fields) : ExprPanicked(e.fields[i][2])
      [] OTHER -> FALSE
StmtPanicked(s) ==
    CASE s.k \in {"VariableDeclaration", "Assignment", "Return"} -> ExprPanicked(s.value)
      [] s.k = "Expression" -> ExprPanicked(s.expr)
      [] s.k = "Block" -> \E i \in 1..Len(s.statements) : StmtPanicked(s.statements[i])
      [] s.k = "While" ->
            ExprPanicked(s.condition) \/ \E i \in 1..Len(s.body) : StmtPanicked(s.body[i])
      [] s.k = "If" ->
            \/ ExprPanicked(s.condition)
            \/ \E i \in 1..Len(s.then_branch) : StmtPanicked(s.then_branch[i])
            \/ s.else_branch # None /\ \E i \in 1..Len(s.else_branch[1]) : StmtPanicked(s.else_branch[1][i])
ProgramPanicked(p) ==
    \E i \in 1..Len(p.functions) : \E j \in 1..Len(p.functions[i].body) :
        StmtPanicked(p.functions[i].body[j])

\* Optimizer::optimize: the Program left in place, or Panicked
optimize(o, p, checks) ==
    Then(IF o.constant_folding THEN constant_folding(p, checks) ELSE p, LAMBDA p1 :
        IF ProgramPanicked(p1) THEN Panicked
        ELSE Then(IF o.dead_code_elimination THEN dead_code_elimination(p1) ELSE p1, LAMBDA p2 :
                IF o.inline_functions THEN inline_small_functions(p2) ELSE p2))

----------------------------------------------------------------------------
(* Bounds of the model *)

\* the loop iterations and user calls one run of the interpreter may make
MaxFuel == 8

\* the value of outcome before any handler has returned
NoOutcome == [status |-> "none"]

----------------------------------------------------------------------------
(* The driver, run_aetos_program: the parsed Program is type-checked, then  *)
(* optimized in place by Optimizer::default(), then interpreted.            *)

\* the statements of main between `let mut x: i32 = 1 + 2;` and the final return
MaxBody == 2

(* The programs: three helper functions (add: a small leaf; twice: writes   *)
(* its parameter x, calls add and prints; down: calls itself from an if     *)
(* branch) and a main whose body is drawn from a pool of statements: moves  *)
(* of x inside an if branch, a while body and a block, at top level, uses   *)
(* of x, calls in statement position and in an initializer, an overflow at  *)
(* run time and one between literals.                                       *)
Programs(max_body) ==
    LET x == Variable("x")
        print_i32(e) == ExpressionStmt(FunctionCall("print_i32", <<e>>))
        add == Function("add", <<Parameter("a", I32), Parameter("b", I32)>>, I32,
                    <<Return(BinaryExpression(Variable("a"), "Add", Variable("b")))>>)
        twice == Function("twice", <<Parameter("x", I32)>>, I32,
                    <<Assignment("x", FunctionCall("add", <<x, x>>)), print_i32(x), Return(x)>>)
        down == Function("down", <<Parameter("n", I32)>>, I32,
                    <<If(BinaryExpression(Variable("n"), "Gt", IntegerLiteral(0)),
                         <<ExpressionStmt(FunctionCall("down",
                              <<BinaryExpression(Variable("n"), "Subtract", IntegerLiteral(1))>>))>>,
                         None),
                      Return(Variable("n"))>>)
        pool == {If(BoolLiteral(TRUE), <<VariableDeclaration("y", I32, Move(x), FALSE)>>, None),
                 While(BinaryExpression(x, "Lt", IntegerLiteral(5)),
                       <<Assignment("x", BinaryExpression(x, "Add", IntegerLiteral(1))),
                         print_i32(Move(x))>>),
                 Block(<<print_i32(Move(x))>>),
                 ExpressionStmt(Move(x)),
                 print_i32(x),
                 ExpressionStmt(FunctionCall("add", <<x, IntegerLiteral(2)>>)),
                 VariableDeclaration("z", I32, FunctionCall("twice", <<x>>), FALSE),
                 ExpressionStmt(FunctionCall("down", <<IntegerLiteral(2)>>)),
                 Assignment("x", BinaryExpression(x, "Multiply", IntegerLiteral(1073741824))),
                 Assignment("x", BinaryExpression(IntegerLiteral(I32Max), "Add", IntegerLiteral(1)))}
        first == VariableDeclaration("x", I32,
                    BinaryExpression(IntegerLiteral(1), "Add", IntegerLiteral(2)), TRUE)
        bodies == UNION {[1..n -> pool] : n \in 0..max_body}
    IN  {Program(<<add, twice, down,
                   Function("main", <<>>, I32, <<first>> \o b \o <<Return(r)>>)>>, <<>>) :
            b \in bodies, r \in {x, Variable("z"), IntegerLiteral(0)}}

(* The programs that declare a function under a builtin's name (delay,       *)
(* sleep, render, print_i32), whose body prints "user", and call it from     *)
(* main in statement position, at the top level of main or inside an if.     *)
ShadowingPrograms ==
    LET user(name) == Function(name, IF name = "render" THEN <<>> ELSE <<Parameter("n", I32)>>, Void,
                               <<ExpressionStmt(FunctionCall("print_string", <<StringLiteral("user")>>))>>)
        call(name) == ExpressionStmt(FunctionCall(name, IF name = "render" THEN <<>>
                                                        ELSE <<IntegerLiteral(5)>>))
    IN  {Program(<<user(name),
                   Function("main", <<>>, I32,
                            <<IF nested THEN If(BoolLiteral(TRUE), <<call(name)>>, None) ELSE call(name),
                              Return(IntegerLiteral(0))>>)>>, <<>>) :
            name \in {"delay", "sleep", "render", "print_i32"}, nested \in BOOLEAN}

(* The programs `struct Point { a: i32, b: i32 }` with a main that declares   *)
(* p: Point from an initialization of up to max_body fields (a and b as      *)
(* declared, c that Point does not declare, a given a Bool) and returns p.a  *)
(* or p.b.                                                                   *)
StructPrograms(max_body) ==
    LET point == Struct("Point", <<StructField("a", I32), StructField("b", I32)>>)
        given == {<<"a", IntegerLiteral(1)>>, <<"b", IntegerLiteral(2)>>, <<"c", IntegerLiteral(3)>>,
                  <<"a", BoolLiteral(TRUE)>>}
    IN  {Program(<<Function("main", <<>>, I32,
                            <<VariableDeclaration("p", StructT("Point"),
                                                  StructInitialization("Point", fields), FALSE),
                              Return(FieldAccess(Variable("p"), read))>>)>>, <<point>>) :
            fields \in UNION {[1..n -> given] : n \in 0..max_body}, read \in {"a", "b"}}

Init ==
    /\ program \in Programs(MaxBody) \cup ShadowingPrograms \cup StructPrograms(MaxBody)
    /\ focus = program
    /\ stage = "parsed"
    /\ checker = NewTypeChecker
    /\ overflow_checks \in BOOLEAN
    /\ interp = NewInterpreter(<<>>, FALSE, overflow_checks, MaxFuel)
    /\ outcome = NoOutcome

\* type_checker.check_program(&program)?
Check ==
    /\ stage = "parsed"
    /\ \E r \in {check_program(program, checker)} :
           /\ checker' = r.c
           /\ stage' = IF r.ok THEN "checked" ELSE "rejected"
           /\ outcome' = [status |-> IF r.ok THEN "ok" ELSE "error", msg |-> r.err.kind]
    /\ UNCHANGED <<program, interp, focus, overflow_checks>>

\* optimizer.optimize(&mut optimized_program)
Optimize ==
    /\ stage = "checked"
    /\ \E optimized_program \in {optimize(DefaultOptimizer, program, overflow_checks)} :
           IF optimized_program = Panicked
           THEN /\ stage' = "optimizer panicked"
                /\ outcome' = [status |-> "panic", msg |-> "arithmetic overflow"]
                /\ UNCHANGED program
           ELSE /\ stage' = "optimized"
                /\ program' = optimized_program
                /\ UNCHANGED outcome
    /\ UNCHANGED <<checker, interp, focus, overflow_checks>>

\* interpreter.interpret_program(&optimized_program, width, height, &title)
Run ==
    /\ stage = "optimized"
    /\ \E r \in {interpret_program(program, interp)} :
           /\ interp' = r.st
           /\ outcome' = [status |-> r.status, msg |-> r.msg]
    /\ stage' = "finished"
    /\ UNCHANGED <<program, checker, focus, overflow_checks>>

Next == Check \/ Optimize \/ Run

Spec == Init /\ [][Next]_vars

\* C1: in a run of a program the type checker accepted, no reference to a variable x is
\* evaluated after a Move of the same binding x was evaluated in the same activation
\* (x not having been given a value in between), wherever the Move stands: in a while
\* body, an if branch or a nested block.
NoUseAfterMove == stage = "finished" => ~interp.use_after_move

\* what a run shows: the builtin calls with their arguments, the value main returned,
\* and how the run ended
Observable(status, msg, st) ==
    [out |-> st.out, returned |-> st.main_returned, status |-> status, msg |-> msg]

\* C3: the optimized program, interpreted, shows what the program as it was type-checked
\* shows when interpreted in the same build: the same builtin calls with the same
\* arguments, the same value returned by main, the same runtime error if any.
OptimizedRunShowsTheSame ==
    stage = "finished" =>
        \A u \in {interpret_program(focus, NewInterpreter(<<>>, FALSE, overflow_checks, MaxFuel))} :
            (u.status # "fuel" /\ outcome.status # "fuel") =>
                Observable(outcome.status, outcome.msg, interp) = Observable(u.status, u.msg, u.st)

\* C10: every user call that returned a value ran its body in an environment holding
\* exactly the callee's parameters, each bound to its argument, and left the caller's
\* environment exactly as it was before the call.
CallsAreIsolated ==
    \A i \in DOMAIN interp.calls :
        LET call == interp.calls[i]
            params == interp.functions[call.name].params
        IN  /\ Len(params) = Len(call.args)
            /\ DOMAIN call.entry = {params[j].name : j \in DOMAIN params}
            /\ \A j \in DOMAIN params : call.entry[params[j].name] = call.args[j]
            /\ call.after = call.before

\* C10 witness: twice(x) was called from main with x = 3, called add(3, 3) from its own
\* environment, wrote 6 to its x and printed it, and main's x is 3 after the call; and
\* down was entered with n = 1 and, from there, with n = 0.
NestedCallsReturned ==
    /\ stage = "finished"
    /\ \E i, j, k, l \in DOMAIN interp.calls :
          /\ i < j /\ k < l
          /\ interp.calls[i].name = "add" /\ interp.calls[j].name = "twice"
          /\ interp.calls[i].args = <<IntegerV(3), IntegerV(3)>>
          /\ interp.calls[j].before["x"] = IntegerV(3)
          /\ interp.calls[j].after["x"] = IntegerV(3)
          /\ \E o \in DOMAIN interp.out : interp.out[o] = <<"print_i32", <<IntegerV(6)>>>>
          /\ interp.calls[k].name = "down" /\ interp.calls[k].entry["n"] = IntegerV(0)
          /\ interp.calls[l].name = "down" /\ interp.calls[l].entry["n"] = IntegerV(1)
          /\ interp.calls[k].before["n"] = IntegerV(1)

----------------------------------------------------------------------------
(* TypeChecker::check_expression applied to one expression, in a checker    *)
(* whose symbol table holds x (of any type, in any state) and possibly y.   *)

Types == {I32, I64, F32, F64, Bool, StringT, StructT("Point")}

SymbolTables ==
    {Insert(EmptyMap, "x", VariableInfo(tx, sx)) : tx \in Types, sx \in VariableState}
    \cup {Insert(Insert(EmptyMap, "x", VariableInfo(tx, sx)), "y", VariableInfo(ty, "Available")) :
            tx \in Types, sx \in VariableState, ty \in Types}

CheckedExpressions ==
    {Variable(n) : n \in {"x", "z"}}
    \cup {Move(Variable(n)) : n \in {"x", "z"}}
    \cup {Borrow(Variable("x"), m) : m \in BOOLEAN}
    \cup {BinaryExpression(Variable("x"), op, Variable("y")) : op \in BinaryOperator}

InitCheckExpression ==
    /\ program = Program(<<>>, <<>>)
    /\ stage = "expression"
    /\ checker \in {[NewTypeChecker EXCEPT !.variables = t] : t \in SymbolTables}
    /\ focus \in {[expression |-> e, checker |-> checker] : e \in CheckedExpressions}
    /\ outcome = NoOutcome
    /\ overflow_checks = TRUE
    /\ interp = NewInterpreter(<<>>, FALSE, overflow_checks, MaxFuel)

\* self.check_expression(expression): the result, and the checker as the call leaves it
CheckExpression ==
    /\ stage = "expression"
    /\ \E r \in {check_expression(focus.expression, checker)} :
           /\ outcome' = [ok |-> r.ok, ty |-> r.ty, err |-> r.err]
           /\ checker' = r.c
    /\ stage' = "expression checked"
    /\ UNCHANGED <<program, interp, focus, overflow_checks>>

SpecCheckExpression == InitCheckExpression /\ [][CheckExpression]_vars

\* the variable a reference expression names
ReferencedName(e) == IF e.k = "Variable" THEN e.name ELSE e.expression.name

\* C2: checking a reference to x (alone, or as the operand of Move or Borrow) fails with
\* UseAfterMove exactly when the state tracked for x is Moved; when it is Available or
\* Borrowed the reference is accepted with x's declared type, and then Move(x) leaves the
\* state Moved, Borrow(x) leaves it Borrowed, and a bare reference leaves it as it was.
\* Nothing else of the symbol table changes.
ReferenceFollowsState ==
    (stage = "expression checked" /\ focus.expression.k \in {"Variable", "Move", "Borrow"}) =>
        LET e == focus.expression
            name == ReferencedName(e)
            before == focus.checker.variables
        IN  /\ (~outcome.ok /\ outcome.err.kind = "UseAfterMove")
                  <=> (name \in DOMAIN before /\ before[name].state = "Moved")
            /\ outcome.err.kind = "UseAfterMove" => outcome.err = TypeCheckError("UseAfterMove", name, Void, Void)
            /\ DOMAIN checker.variables = DOMAIN before
            /\ \A n \in DOMAIN before :
                  /\ checker.variables[n].var_type = before[n].var_type
                  /\ (n # name \/ ~outcome.ok) => checker.variables[n] = before[n]
            /\ (name \in DOMAIN before /\ before[name].state \in {"Available", "Borrowed"}) =>
                  /\ outcome.ok
                  /\ outcome.ty = before[name].var_type
                  /\ checker.variables[name].state =
                        CASE e.k = "Move" -> "Moved"
                          [] e.k = "Borrow" -> "Borrowed"
                          [] OTHER -> before[name].state

\* C2 witness: Move(x) was checked with x Borrowed, was accepted, and x is now Moved
MoveOfBorrowedChecked ==
    /\ stage = "expression checked"
    /\ focus.expression = Move(Variable("x"))
    /\ focus.checker.variables["x"].state = "Borrowed"
    /\ outcome.ok
    /\ checker.variables["x"].state = "Moved"

\* the pairs of types the rule of the common numeric type covers, and the wider of each
NumericTypes == {I32, I64, F32, F64}
WiderType(l, r) ==
    IF l = r THEN Some(l)
    ELSE IF {l, r} = {I32, F32} THEN Some(F32)
    ELSE IF {l, r} \in {{I32, F64}, {F32, F64}} THEN Some(F64)
    ELSE IF {l, r} = {I32, I64} THEN Some(I64)
    ELSE None

\* C7: a binary expression over operands of types l and r: with an arithmetic operator and
\* two numeric types it has the wider type, with a comparison operator it has type Bool;
\* when l and r have no common numeric type the check fails with TypeMismatch; && and ||
\* are accepted exactly when both operands are Bool.  (The pairs of numeric types the
\* claim does not list, I64 with F32 or F64, are left open.)
BinaryExpressionTyped ==
    (/\ stage = "expression checked"
     /\ focus.expression.k = "BinaryExpression"
     /\ "y" \in DOMAIN focus.checker.variables
     /\ focus.checker.variables["x"].state # "Moved") =>
        LET l == focus.checker.variables["x"].var_type
            r == focus.checker.variables["y"].var_type
            op == focus.expression.operator
        IN  IF op \in LogicalOps
            THEN IF l = Bool /\ r = Bool THEN outcome.ok /\ outcome.ty = Bool
                 ELSE ~outcome.ok /\ outcome.err.kind = "TypeMismatch"
            ELSE IF l \in NumericTypes /\ r \in NumericTypes
            THEN WiderType(l, r) # None =>
                    /\ outcome.ok
                    /\ outcome.ty = IF op \in ArithmeticOps THEN WiderType(l, r)[1] ELSE Bool
            ELSE ~outcome.ok /\ outcome.err.kind = "TypeMismatch"


----------------------------------------------------------------------------
(* The passes of the optimizer, each applied alone: constant folding to one *)
(* expression, dead-code elimination to one function, inlining to one       *)
(* program. focus holds the input of the pass.                              *)

\* the integer literals of the folded trees are 0..MaxLiteral and i32::MAX
MaxLiteral == 1

\* the operators of the inner node of a folded tree
InnerOperators == {"Subtract", "Multiply", "Divide", "Lt", "And"}

(* The folded trees: a literal, one operator over two literals, one         *)
(* operator over a literal and such a node, on either side, and one         *)
(* operator over two nodes of small integer literals; and the quotient of    *)
(* the least i32, written 0 - 2147483647 - 1, by 0 - 1.                      *)
FoldedTrees(max_literal) ==
    LET small == {IntegerLiteral(i) : i \in 0..max_literal}
        leaves == small \cup {IntegerLiteral(I32Max)} \cup {BoolLiteral(b) : b \in BOOLEAN}
        inner == {BinaryExpression(l, op, r) : l \in leaves, op \in InnerOperators, r \in leaves}
        both == {BinaryExpression(l, op, r) : l \in small, op \in {"Subtract", "Lt", "Eq"}, r \in small}
        least == BinaryExpression(BinaryExpression(IntegerLiteral(0), "Subtract", IntegerLiteral(I32Max)),
                                  "Subtract", IntegerLiteral(1))
    IN  leaves
        \cup {BinaryExpression(least, "Divide", BinaryExpression(IntegerLiteral(0), "Subtract", IntegerLiteral(1)))}
        \cup {BinaryExpression(n, op, m) : n \in both, op \in BinaryOperator, m \in both}
        \cup {BinaryExpression(l, op, r) : l \in leaves, op \in BinaryOperator, r \in leaves}
        \cup {BinaryExpression(n, op, r) : n \in inner, op \in BinaryOperator, r \in leaves}
        \cup {BinaryExpression(l, op, n) : l \in leaves, op \in BinaryOperator, n \in inner}

(* The functions given to dead-code elimination: `let x: i32 = 1;`, then a  *)
(* statement that holds an expression, which holds x in one of the forms an *)
(* expression can hold a variable (or does not hold it), then a return. The  *)
(* statement may assign x, or declare z inside a block, a loop or a branch.  *)
EliminatedFunctions ==
    LET x == Variable("x")
        one == IntegerLiteral(1)
        holders == {x, one,
                    BinaryExpression(x, "Add", one), BinaryExpression(one, "Add", x),
                    FunctionCall("f", <<one, x>>),
                    StructInitialization("Point", <<<<"a", one>>, <<"b", x>>>>),
                    FieldAccess(x, "a"), TypeCast(x, F32), TypeCast(x, I32), Move(x), Borrow(x, FALSE),
                    BinaryExpression(TypeCast(x, F32), "Lt", TypeCast(one, F32))}
        nested(e) == <<VariableDeclaration("z", I32, e, FALSE)>>
        statements(e) == {Return(e), ExpressionStmt(e), Assignment("w", e), Assignment("x", e),
                          Block(nested(e)), While(BoolLiteral(FALSE), nested(e)),
                          If(BoolLiteral(TRUE), nested(e), None),
                          If(BoolLiteral(TRUE), <<>>, Some(nested(e))),
                          Block(<<Block(nested(e)), ExpressionStmt(Variable("z"))>>),
                          VariableDeclaration("y", I32, e, FALSE),
                          Block(<<ExpressionStmt(e)>>), While(e, <<>>),
                          While(BoolLiteral(FALSE), <<ExpressionStmt(e)>>),
                          If(e, <<>>, None),
                          If(BoolLiteral(TRUE), <<ExpressionStmt(e)>>, None),
                          If(BoolLiteral(TRUE), <<>>, Some(<<ExpressionStmt(e)>>))}
        bodies == UNION {{<<VariableDeclaration("x", I32, one, TRUE), s, Return(r)>> :
                            s \in statements(e), r \in {one, Variable("y")}} : e \in holders}
    IN  {Function("main", <<>>, I32, b) : b \in bodies}

(* The programs given to inlining: callees at and beyond each limit of      *)
(* should_inline_function, and a caller whose body is up to MaxBody         *)
(* statements: calls in statement position (with the parameter count and    *)
(* without), calls elsewhere, and statements that are no call.              *)
InlinedPrograms(max_body) ==
    LET one == IntegerLiteral(1)
        a == Variable("a")
        P(n) == Parameter(n, I32)
        call(n, args) == ExpressionStmt(FunctionCall(n, args))
        stmt == Assignment("a", BinaryExpression(a, "Add", one))
        callees == <<Function("none", <<>>, Void, <<>>),
                     Function("add", <<P("a"), Parameter("b", F32)>>, I32,
                              <<Return(BinaryExpression(a, "Add", Variable("b")))>>),
                     Function("five", <<P("a"), P("b"), P("c")>>, I32,
                              <<stmt, stmt, call("add", <<a, a>>), stmt, Return(a)>>),
                     Function("six", <<P("a")>>, I32, <<stmt, stmt, stmt, stmt, stmt, Return(a)>>),
                     Function("four", <<P("a"), P("b"), P("c"), P("d")>>, I32, <<Return(a)>>),
                     Function("print_twice", <<P("a")>>, Void,
                              <<call("print_i32", <<a>>), call("print_i32", <<a>>)>>)>>
        \* declared after main: a function that calls itself
        again == Function("again", <<P("a")>>, Void, <<call("again", <<a>>)>>)
        two == IntegerLiteral(2)
        pool == {call("none", <<>>), call("add", <<one, two>>), call("add", <<one>>),
                 call("five", <<one, two, one>>), call("six", <<one>>),
                 call("four", <<one, two, one, two>>), call("print_twice", <<one>>),
                 call("print_i32", <<one>>), call("nowhere", <<one>>), call("again", <<one>>),
                 call("add", <<FunctionCall("add", <<one, two>>), two>>),
                 VariableDeclaration("z", I32, FunctionCall("add", <<one, two>>), FALSE),
                 Block(<<call("add", <<one, two>>)>>),
                 Return(FunctionCall("add", <<one, two>>))}
        bodies == UNION {[1..n -> pool] : n \in 1..max_body}
    IN  {Program(callees \o <<Function("main", <<>>, I32, b), again>>, <<>>) : b \in bodies}

InitPass ==
    /\ stage \in {"to fold", "to eliminate", "to inline"}
    /\ program \in IF stage = "to inline" THEN InlinedPrograms(MaxBody) ELSE {Program(<<>>, <<>>)}
    /\ focus \in CASE stage = "to fold" -> FoldedTrees(MaxLiteral)
                   [] stage = "to eliminate" -> EliminatedFunctions
                   [] stage = "to inline" -> {program}
    /\ overflow_checks \in IF stage = "to fold" THEN BOOLEAN ELSE {TRUE}
    /\ checker = NewTypeChecker
    /\ interp = NewInterpreter(<<>>, FALSE, overflow_checks, MaxFuel)
    /\ outcome = NoOutcome

\* self.fold_constants_in_expression(expr): the expression returned, or Panicked
FoldExpression ==
    /\ stage = "to fold"
    /\ \E folded \in {fold_constants_in_expression(focus, overflow_checks)} :
           outcome' = IF ExprPanicked(folded) THEN Panicked ELSE folded
    /\ stage' = "folded"
    /\ UNCHANGED <<program, checker, interp, focus, overflow_checks>>

\* self.eliminate_dead_code_in_function(function): the function left in place
EliminateDeadCode ==
    /\ stage = "to eliminate"
    /\ \E function \in {eliminate_dead_code_in_function(focus)} : outcome' = function
    /\ stage' = "eliminated"
    /\ UNCHANGED <<program, checker, interp, focus, overflow_checks>>

\* self.inline_small_functions(program): the program left in place
InlineFunctions ==
    /\ stage = "to inline"
    /\ \E inlined \in {inline_small_functions(program)} : program' = inlined
    /\ stage' = "inlined"
    /\ UNCHANGED <<checker, interp, focus, outcome, overflow_checks>>

NextPass == FoldExpression \/ EliminateDeadCode \/ InlineFunctions

SpecPass == InitPass /\ [][NextPass]_vars

\* the literal that denotes a value of the interpreter
Literal(v) == IF v.tag = "Integer" THEN IntegerLiteral(v.i) ELSE BoolLiteral(v.b)

\* "int" or "bool" for a tree of literals each of whose operators stands over operands
\* of the kind it combines (+ - * / and the comparisons over integers, && and || over
\* booleans), "none" for any other tree
RECURSIVE OperandKind(_)
OperandKind(e) ==
    CASE e.k = "IntegerLiteral" -> "int"
      [] e.k = "BoolLiteral" -> "bool"
      [] e.k = "BinaryExpression" ->
            LET kinds == <<OperandKind(e.left), OperandKind(e.right)>>
            IN  CASE kinds = <<"int", "int">> /\ e.operator \in ArithmeticOps -> "int"
                  [] kinds = <<"int", "int">> /\ e.operator \in ComparisonOps -> "bool"
                  [] kinds = <<"bool", "bool">> /\ e.operator \in LogicalOps -> "bool"
                  [] OTHER -> "none"
      [] OTHER -> "none"

\* a tree built from integer literals and + - * == != < > <= >=, and && / || over
\* boolean literals
RECURSIVE ClaimedTree(_)
ClaimedTree(e) ==
    CASE e.k = "IntegerLiteral" -> TRUE
      [] e.k = "BinaryExpression" ->
            \/ /\ e.operator \in {"Add", "Subtract", "Multiply"} \cup ComparisonOps
               /\ ClaimedTree(e.left) /\ ClaimedTree(e.right)
            \/ /\ e.operator \in LogicalOps
               /\ e.left.k = "BoolLiteral" /\ e.right.k = "BoolLiteral"
      [] OTHER -> FALSE

RECURSIVE Refers(_, _)
Refers(e, name) ==
    CASE e.k = "Variable" -> e.name = name
      [] e.k = "BinaryExpression" -> Refers(e.left, name) \/ Refers(e.right, name)
      [] e.k = "FunctionCall" -> \E i \in 1..Len(e.args) : Refers(e.args[i], name)
      [] e.k = "StructInitialization" -> \E i \in 1..Len(e.fields) : Refers(e.fields[i][2], name)
      [] e.k \in {"FieldAccess", "TypeCast", "Move", "Borrow"} -> Refers(e.expression, name)
      [] OTHER -> FALSE

\* whether a statement among ss holds a reference to name / declares name
RECURSIVE Referenced(_, _), DeclaredIn(_)
Referenced(ss, name) ==
    \E i \in 1..Len(ss) :
        CASE ss[i].k \in {"VariableDeclaration", "Assignment", "Return"} -> Refers(ss[i].value, name)
          [] ss[i].k = "Expression" -> Refers(ss[i].expr, name)
          [] ss[i].k = "Block" -> Referenced(ss[i].statements, name)
          [] ss[i].k = "While" -> Refers(ss[i].condition, name) \/ Referenced(ss[i].body, name)
          [] ss[i].k = "If" ->
                \/ Refers(ss[i].condition, name)
                \/ Referenced(ss[i].then_branch, name)
                \/ ss[i].else_branch # None /\ Referenced(ss[i].else_branch[1], name)
DeclaredIn(ss) ==
    UNION {CASE ss[i].k = "VariableDeclaration" -> {ss[i].name}
             [] ss[i].k = "Block" -> DeclaredIn(ss[i].statements)
             [] ss[i].k = "While" -> DeclaredIn(ss[i].body)
             [] ss[i].k = "If" ->
                    DeclaredIn(ss[i].then_branch)
                    \cup (IF ss[i].else_branch = None THEN {} ELSE DeclaredIn(ss[i].else_branch[1]))
             [] OTHER -> {} : i \in 1..Len(ss)}

\* C5 as stated: dead-code elimination leaves the body of a function unchanged when
\* every variable declared in it is referenced somewhere in the function, whatever
\* expression form holds the reference (the operand of a type cast included).
DeadCodeKeepsReferenced ==
    (stage = "eliminated" /\ \A name \in DeclaredIn(focus.body) : Referenced(focus.body, name))
        => outcome.body = focus.body

\* the statements that replace statement s of a body when program p is inlined: the
\* parameters of the callee declared with the arguments, then the callee's body
Replacement(p, s) ==
    LET callees == {i \in 1..Len(p.functions) :
                        /\ s.k = "Expression" /\ s.expr.k = "FunctionCall"
                        /\ p.functions[i].name = s.expr.name
                        /\ Len(p.functions[i].body) <= 5
                        /\ Len(p.functions[i].params) <= 3
                        /\ ~StartsWithPrint(p.functions[i].name)
                        /\ Len(s.expr.args) = Len(p.functions[i].params)}
    IN  IF callees = {} THEN <<s>>
        ELSE LET g == p.functions[CHOOSE i \in callees : TRUE]
             IN  [i \in 1..Len(g.params) |->
                    [k |-> "VariableDeclaration", name |-> g.params[i].name,
                     var_type |-> g.params[i].param_type, value |-> s.expr.args[i],
                     mutable |-> FALSE]]
                 \o g.body

RECURSIVE Replaced(_, _, _)
Replaced(p, body, i) ==
    IF i > Len(body) THEN <<>> ELSE Replacement(p, body[i]) \o Replaced(p, body, i + 1)

\* C6: inlining replaces exactly the top-level expression statements that call a user
\* function of at most 5 body statements and at most 3 parameters, whose name does not
\* start with "print", with as many arguments as it has parameters; the replacement is
\* one immutable declaration per parameter (its name, its type, the argument), in
\* order, then the callee's body as it was before inlining; every other statement
\* stays, in order.
InliningReplacesSmallCalls ==
    stage = "inlined" =>
        /\ Len(program.functions) = Len(focus.functions)
        /\ \A i \in 1..Len(focus.functions) :
               /\ program.functions[i].body = Replaced(focus, focus.functions[i].body, 1)
               /\ [program.functions[i] EXCEPT !.body = <<>>]
                    = [focus.functions[i] EXCEPT !.body = <<>>]

\* C6 witness: main called five (5 statements, 3 parameters) and six (6 statements) in
\* statement position; the first call was replaced by three declarations and the five
\* statements, the second was kept
FiveInlinedSixKept ==
    /\ stage = "inlined"
    /\ LET before == focus.functions[7].body
           after == program.functions[7].body
       IN  /\ Len(before) = 2 /\ Len(after) = 9
           /\ before[1].k = "Expression" /\ before[1].expr.name = "five"
           /\ before[2].k = "Expression" /\ before[2].expr.name = "six"
           /\ after[1].k = "VariableDeclaration" /\ after[1].name = "a" /\ ~after[1].mutable
           /\ after[8] = focus.functions[3].body[5]
           /\ after[9] = before[2]

----------------------------------------------------------------------------
(* Steps of the interpreter, each applied alone: evaluate_binary_operation  *)
(* to two values and an operator, interpret_statement to an If, a Block or  *)
(* a While in an environment that holds x. focus holds the input.           *)

\* the values given to evaluate_binary_operation: integers -MaxLiteral..MaxLiteral and
\* the ends of i32, floats (zero among them), booleans, a string, a struct and Void
OperandValues(max_literal) ==
    {IntegerV(i) : i \in (-max_literal..max_literal) \cup {I32Min, I32Max}}
    \cup {FloatV(n, 2) : n \in -max_literal..max_literal}
    \cup {BooleanV(b) : b \in BOOLEAN}
    \cup {StringV("s"), StructV("Point", <<<<"a", IntegerV(0)>>>>), VoidV}

\* the pairs of operands; the ends of i32 meet every value but a float (the model's
\* floats are exact fractions of small integers)
OperandPairs(max_literal) ==
    {v \in OperandValues(max_literal) \X OperandValues(max_literal) :
        \A i \in 1..2 : (v[i].tag = "Integer" /\ v[i].i \in {I32Min, I32Max}) => v[3 - i].tag # "Float"}

(* The statements given to interpret_statement: a body of up to MaxBody     *)
(* statements that declare, reassign, print or nest, under an If (with and  *)
(* without else, condition true or false), in a Block, and in a While that  *)
(* counts x up to 2.                                                        *)
SteppedStatements(max_body) ==
    LET x == Variable("x")
        plus(e, i) == BinaryExpression(e, "Add", IntegerLiteral(i))
        pool == {VariableDeclaration("t", I32, plus(x, 1), FALSE),
                 VariableDeclaration("x", I32, IntegerLiteral(7), TRUE),
                 Assignment("x", plus(x, 1)),
                 Assignment("y", plus(x, 5)),
                 ExpressionStmt(FunctionCall("print_i32", <<x>>)),
                 Block(<<Assignment("x", plus(x, 1)), VariableDeclaration("u", I32, x, FALSE)>>),
                 If(BinaryExpression(x, "Lt", IntegerLiteral(1)),
                    <<Assignment("y", IntegerLiteral(9))>>, None)}
        bodies == UNION {[1..n -> pool] : n \in 0..max_body}
        count == Assignment("x", plus(x, 1))
    IN  {If(c, b, e) : c \in {BoolLiteral(TRUE), BinaryExpression(x, "Lt", IntegerLiteral(1))},
                       b \in bodies, e \in {None, Some(<<count>>)}}
        \cup {If(BoolLiteral(FALSE), <<count>>, Some(b)) : b \in bodies}
        \cup {Block(b) : b \in bodies}
        \cup {While(BinaryExpression(x, "Lt", IntegerLiteral(2)), b \o <<count>>) : b \in bodies}

(* The programs handed to interpret_program whose main evaluates one        *)
(* expression that fails (kind says how) or does not (kind "none"), as a     *)
(* statement, as the value returned, under a condition, and as the argument  *)
(* of a call of a user function; and the program that declares its own       *)
(* print_i32() and calls it, which the type checker accepts.                 *)
FailingPrograms ==
    LET one == IntegerLiteral(1)
        point == StructInitialization("Point", <<<<"a", one>>>>)
        failing ==
            {<<"undefined variable", Variable("nowhere")>>,
             <<"undefined function", FunctionCall("nowhere", <<one>>)>>,
             <<"field of non-struct", FieldAccess(one, "a")>>,
             <<"unknown field", FieldAccess(point, "b")>>,
             <<"division by zero", BinaryExpression(one, "Divide", IntegerLiteral(0))>>,
             <<"division by zero", BinaryExpression(FloatLiteral(1, 2), "Divide", IntegerLiteral(0))>>,
             <<"missing argument", FunctionCall("print_i32", <<>>)>>,
             <<"missing argument", FunctionCall("draw_pixel", <<one, one, one, one>>)>>,
             <<"missing argument", FunctionCall("is_key_pressed", <<>>)>>,
             <<"wrongly typed argument", FunctionCall("print_i32", <<StringLiteral("s")>>)>>,
             <<"wrongly typed argument", FunctionCall("print_string", <<one>>)>>,
             <<"wrongly typed argument", FunctionCall("clear_screen", <<one, BoolLiteral(TRUE), one>>)>>,
             <<"none", FunctionCall("print_i32", <<one>>)>>,
             <<"none", FieldAccess(point, "a")>>,
             <<"none", BinaryExpression(one, "Divide", one)>>}
        bodies(e) == {<<ExpressionStmt(e)>>, <<Return(e)>>,
                      <<ExpressionStmt(one), VariableDeclaration("v", I32, e, FALSE)>>,
                      <<If(BoolLiteral(TRUE), <<ExpressionStmt(e)>>, None)>>,
                      <<VariableDeclaration("g", Bool, BoolLiteral(TRUE), TRUE),
                        While(Variable("g"), <<ExpressionStmt(e), Assignment("g", BoolLiteral(FALSE))>>)>>,
                      <<ExpressionStmt(FunctionCall("id", <<e>>))>>,
                      <<ExpressionStmt(FunctionCall("inner", <<>>))>>}
        id == Function("id", <<Parameter("a", I32)>>, I32, <<Return(Variable("a"))>>)
        inner(e) == Function("inner", <<>>, I32, <<ExpressionStmt(e), Return(one)>>)
        own == Program(<<Function("print_i32", <<>>, I32, <<Return(one)>>),
                         Function("main", <<>>, I32,
                                  <<ExpressionStmt(FunctionCall("print_i32", <<>>)), Return(one)>>)>>, <<>>)
    IN  {[about |-> "failure", kind |-> "missing argument", program |-> own]}
        \cup
        UNION {{[about |-> "failure", kind |-> f[1], program |-> Program(<<id, inner(f[2]), Function("main", <<>>, I32, b)>>, <<>>)] :
                    b \in bodies(f[2])} : f \in failing}

(* The programs in which `return 7;` is executed at a place of a function's   *)
(* body: at its top level, in the then-branch of an if (followed there by a  *)
(* print), in an else-branch, in a while body run once, in a block, in a     *)
(* block inside a branch; after it the body goes on with nothing, a print, a *)
(* `return 0;`, or both. The function is main, or f called by main, which    *)
(* returns what f returned.                                                  *)
ReturningPrograms ==
    LET seven == Return(IntegerLiteral(7))
        print(i) == ExpressionStmt(FunctionCall("print_i32", <<IntegerLiteral(i)>>))
        g == Variable("g")
        at(place) ==
            CASE place = "top" -> <<seven>>
              [] place = "if" -> <<If(BoolLiteral(TRUE), <<seven, print(2)>>, None)>>
              [] place = "else" -> <<If(BoolLiteral(FALSE), <<>>, Some(<<seven>>))>>
              [] place = "while" -> <<VariableDeclaration("g", Bool, BoolLiteral(TRUE), TRUE),
                                      While(g, <<Assignment("g", BoolLiteral(FALSE)), seven>>)>>
              [] place = "block" -> <<Block(<<seven>>)>>
              [] place = "block in if" -> <<If(BoolLiteral(TRUE), <<Block(<<seven>>)>>, None)>>
        rests == {<<>>, <<print(1)>>, <<Return(IntegerLiteral(0))>>, <<print(1), Return(IntegerLiteral(0))>>}
    IN  {[about |-> "return", place |-> place, rest |-> rest, callee |-> callee,
          program |-> IF callee
                      THEN Program(<<Function("f", <<>>, I32, at(place) \o rest),
                                     Function("main", <<>>, I32, <<Return(FunctionCall("f", <<>>))>>)>>, <<>>)
                      ELSE Program(<<Function("main", <<>>, I32, at(place) \o rest)>>, <<>>)] :
            place \in {"top", "if", "else", "while", "block", "block in if"},
            rest \in rests, callee \in BOOLEAN}

(* The statements run in an interpreter with or without a window, whose      *)
(* should_exit flag is clear or (with a window) already set, and a window    *)
(* that answers polls in order (TRUE: still open), open once polls is used   *)
(* up: a while whose condition get_time() < limit reads the clock (0, 1, 2,  *)
(* ... at each evaluation) and whose body prints x and adds 1 to it, then    *)
(* ends ("count"), divides by 2 - x ("failing"), returns x ("returning") or  *)
(* runs an inner while that prints a string once ("nested"); and a block and *)
(* an if that hold no loop.                                                  *)
LoopRuns(max_body) ==
    LET x == Variable("x")
        print == ExpressionStmt(FunctionCall("print_i32", <<x>>))
        step == Assignment("x", BinaryExpression(x, "Add", IntegerLiteral(1)))
        inner == <<VariableDeclaration("i", I32, IntegerLiteral(0), TRUE),
                   While(BinaryExpression(Variable("i"), "Lt", IntegerLiteral(1)),
                         <<ExpressionStmt(FunctionCall("print_string", <<StringLiteral("in")>>)),
                           Assignment("i", IntegerLiteral(1))>>)>>
        body(kind) ==
            CASE kind = "count" -> <<print, step>>
              [] kind = "failing" ->
                    <<print, step,
                      Assignment("y", BinaryExpression(IntegerLiteral(1), "Divide",
                                                       BinaryExpression(IntegerLiteral(2), "Subtract", x)))>>
              [] kind = "returning" -> <<print, step, Return(x)>>
              [] kind = "nested" -> <<print, step>> \o inner
              [] OTHER -> <<print, step>>
        statement(kind, limit) ==
            CASE kind = "block" -> Block(body(kind))
              [] kind = "if" -> If(BinaryExpression(x, "Lt", IntegerLiteral(limit)), body(kind), None)
              [] OTHER -> While(BinaryExpression(FunctionCall("get_time", <<>>), "Lt", FloatLiteral(limit, 1)),
                                body(kind))
    IN  {[about |-> "loop", body |-> kind, limit |-> limit, engine |-> flags[1], should_exit |-> flags[2],
          polls |-> polls, statement |-> statement(kind, limit),
          variables |-> Insert(Insert(EmptyMap, "x", IntegerV(0)), "y", IntegerV(0))] :
            kind \in {"count", "failing", "returning", "nested", "block", "if"}, limit \in 0..max_body,
            flags \in {<<FALSE, FALSE>>, <<TRUE, FALSE>>, <<TRUE, TRUE>>},
            polls \in UNION {[1..n -> BOOLEAN] : n \in 0..max_body}}

InitStep ==
    /\ stage \in {"operands", "statement", "loop", "optimized"}
    /\ overflow_checks \in BOOLEAN
    /\ focus \in CASE stage = "operands" ->
                        {[left |-> v[1], operator |-> op, right |-> v[2]] :
                            v \in OperandPairs(MaxLiteral), op \in BinaryOperator}
                   [] stage = "statement" ->
                        {[statement |-> s, variables |-> Insert(Insert(EmptyMap, "x", IntegerV(i)), "y", IntegerV(0))] :
                            s \in SteppedStatements(MaxBody), i \in 0..MaxLiteral}
                   [] stage = "loop" -> LoopRuns(MaxBody)
                   [] stage = "optimized" -> FailingPrograms \cup ReturningPrograms
    /\ interp = CASE stage = "statement" ->
                        [NewInterpreter(<<>>, FALSE, overflow_checks, MaxFuel)
                            EXCEPT !.variables = focus.variables]
                   [] stage = "loop" ->
                        [NewInterpreter(focus.polls, FALSE, overflow_checks, MaxFuel)
                            EXCEPT !.variables = focus.variables, !.graphics_engine = focus.engine,
                                   !.should_exit = focus.should_exit]
                   [] OTHER -> NewInterpreter(<<>>, FALSE, overflow_checks, MaxFuel)
    /\ program = IF stage = "optimized" THEN focus.program ELSE Program(<<>>, <<>>)
    /\ checker = NewTypeChecker
    /\ outcome = NoOutcome

\* self.evaluate_binary_operation(&left, &operator, &right)
EvaluateBinaryOperation ==
    /\ stage = "operands"
    /\ outcome' = evaluate_binary_operation(focus.left, focus.operator, focus.right, overflow_checks)
    /\ stage' = "operated"
    /\ UNCHANGED <<program, checker, interp, focus, overflow_checks>>

\* self.interpret_statement(statement)
InterpretStatement ==
    /\ stage \in {"statement", "loop"}
    /\ \E r \in {interpret_statement(focus.statement, interp)} :
           /\ interp' = r.st
           /\ outcome' = [status |-> r.status, msg |-> r.msg]
    /\ stage' = IF stage = "loop" THEN "looped" ELSE "stepped"
    /\ UNCHANGED <<program, checker, focus, overflow_checks>>

NextStep == EvaluateBinaryOperation \/ InterpretStatement \/ Run

SpecStep == InitStep /\ [][NextStep]_vars

\* C8: a division by an Integer or Float zero (Integer/Integer, Float/Float and both
\* mixed orders) returns the error "Division by zero", never a value and never a panic;
\* && and || return a value exactly on Boolean/Boolean; every pair of operands other
\* than Integer/Integer, Float/Float, Boolean/Boolean, Integer/Float and Float/Integer
\* returns the error "Type mismatch in binary operation".
BinaryOperationErrors ==
    stage = "operated" =>
        LET numeric(v) == v.tag \in {"Integer", "Float"}
            zero(v) == (v.tag = "Integer" /\ v.i = 0) \/ (v.tag = "Float" /\ v.num = 0)
            tags == <<focus.left.tag, focus.right.tag>>
        IN  /\ (focus.operator = "Divide" /\ numeric(focus.left) /\ numeric(focus.right)
                    /\ zero(focus.right))
                 => outcome = [status |-> "error", val |-> [tag |-> "Void"], msg |-> "Division by zero"]
            /\ focus.operator \in {"And", "Or"}
                 => (outcome.status = "ok" <=> tags = <<"Boolean", "Boolean">>)
            /\ tags \notin {<<"Integer", "Integer">>, <<"Float", "Float">>, <<"Boolean", "Boolean">>,
                            <<"Integer", "Float">>, <<"Float", "Integer">>}
                 => /\ outcome.status = "error"
                    /\ outcome.msg = "Type mismatch in binary operation"

\* C8 witness: a Float was divided by the Integer 0 and the error came back
FloatDividedByIntegerZero ==
    /\ stage = "operated"
    /\ focus.operator = "Divide"
    /\ focus.left.tag = "Float" /\ focus.left.num # 0
    /\ focus.right = [tag |-> "Integer", i |-> 0]
    /\ outcome.status = "error" /\ outcome.msg = "Division by zero"

\* the statements ss, n times over
RECURSIVE Unrolled(_, _)
Unrolled(ss, n) == IF n = 0 THEN <<>> ELSE ss \o Unrolled(ss, n - 1)

\* C9: when an If (a branch taken, or none) or a Block has completed, the environment
\* is the one that held before its body ran; when a While has completed, the
\* environment is the one its body statements left, iteration after iteration, with
\* nothing put back.
BranchRestoresLoopKeeps ==
    (stage = "stepped" /\ outcome.status = "ok") =>
        /\ focus.statement.k \in {"If", "Block"} => interp.variables = focus.variables
        /\ focus.statement.k = "While" =>
              \A u \in {interpret_statements(Unrolled(focus.statement.body, MaxFuel - interp.fuel), 1,
                                             [tag |-> "Void"],
                                             [NewInterpreter(<<>>, FALSE, overflow_checks, MaxFuel)
                                                EXCEPT !.variables = focus.variables])} :
                  u.status = "ok" /\ interp.variables = u.st.variables

\* C9 witness: an If ran a branch that gave x a new value and printed it; afterwards x
\* has the value it had before the If
BranchForgotten ==
    /\ stage = "stepped"
    /\ outcome.status = "ok"
    /\ focus.statement.k = "If"
    /\ \E i \in DOMAIN interp.out : interp.out[i][2][1] # focus.variables["x"]
    /\ interp.variables = focus.variables

----------------------------------------------------------------------------
(* lexer.rs *)

(* A source text is a sequence of characters, each a string of length one.  *)
(* Token: [t |-> the variant], with s, i or num/den for the variants that    *)
(* carry a value.                                                            *)

\* [a-zA-Z_]
Letters ==
    {"a", "b", "c", "d", "e", "f", "g", "h", "i", "j", "k", "l", "m", "n", "o", "p", "q", "r",
     "s", "t", "u", "v", "w", "x", "y", "z", "_",
     "A", "B", "C", "D", "E", "F", "G", "H", "I", "J", "K", "L", "M", "N", "O", "P", "Q", "R",
     "S", "T", "U", "V", "W", "X", "Y", "Z"}
Digits == {"0", "1", "2", "3", "4", "5", "6", "7", "8", "9"}
\* [ \t\n\f]
Whitespace == {" ", "\t", "\n", "\f"}

DigitValue(c) ==
    CASE c = "0" -> 0 [] c = "1" -> 1 [] c = "2" -> 2 [] c = "3" -> 3 [] c = "4" -> 4
      [] c = "5" -> 5 [] c = "6" -> 6 [] c = "7" -> 7 [] c = "8" -> 8 [] c = "9" -> 9

\* #[token("fn")] ... #[token("void")]: the variant of a word, Identifier when it is no keyword
KeywordOf(word) ==
    CASE word = "fn" -> "KeywordFn" [] word = "let" -> "KeywordLet" [] word = "mut" -> "KeywordMut"
      [] word = "as" -> "KeywordAs" [] word = "return" -> "KeywordReturn" [] word = "if" -> "KeywordIf"
      [] word = "else" -> "KeywordElse" [] word = "while" -> "KeywordWhile" [] word = "for" -> "KeywordFor"
      [] word = "in" -> "KeywordIn" [] word = "struct" -> "KeywordStruct" [] word = "true" -> "KeywordTrue"
      [] word = "false" -> "KeywordFalse" [] word = "i32" -> "KeywordI32" [] word = "i64" -> "KeywordI64"
      [] word = "f32" -> "KeywordF32" [] word = "f64" -> "KeywordF64" [] word = "bool" -> "KeywordBool"
      [] word = "string" -> "KeywordString" [] word = "void" -> "KeywordVoid"
      [] OTHER -> "Identifier"

\* the operators and delimiters of two characters, "" when cc is none
TwoCharToken(cc) ==
    CASE cc = "==" -> "OperatorEq" [] cc = "!=" -> "OperatorNeq" [] cc = "<=" -> "OperatorLte"
      [] cc = ">=" -> "OperatorGte" [] cc = "&&" -> "OperatorAnd" [] cc = "||" -> "OperatorOr"
      [] cc = "->" -> "Arrow"
      [] OTHER -> ""

\* the operators and delimiters of one character, "" when c is none
OneCharToken(c) ==
    CASE c = "+" -> "OperatorAdd" [] c = "-" -> "OperatorSubtract" [] c = "*" -> "OperatorMultiply"
      [] c = "/" -> "OperatorDivide" [] c = "%" -> "OperatorModulo" [] c = "=" -> "OperatorAssign"
      [] c = "!" -> "OperatorNot" [] c = "<" -> "OperatorLt" [] c = ">" -> "OperatorGt"
      [] c = "?" -> "Question" [] c = ":" -> "Colon" [] c = "(" -> "ParenOpen" [] c = ")" -> "ParenClose"
      [] c = "{" -> "BraceOpen" [] c = "}" -> "BraceClose" [] c = "[" -> "BracketOpen"
      [] c = "]" -> "BracketClose" [] c = ";" -> "Semicolon" [] c = "," -> "Comma" [] c = "." -> "Dot"
      [] OTHER -> ""

\* the position after the longest run, from pos, of characters that are in the set
\* (inside) or are not in it
RECURSIVE RunEnd(_, _, _, _)
RunEnd(text, pos, set, inside) ==
    IF pos <= Len(text) /\ ((text[pos] \in set) <=> inside)
    THEN RunEnd(text, pos + 1, set, inside)
    ELSE pos

\* lex.slice(): the characters from..(to - 1) as a string
RECURSIVE Slice(_, _, _)
Slice(text, from, to) == IF from >= to THEN "" ELSE text[from] \o Slice(text, from + 1, to)

\* the decimal number the digits from..(to - 1) write, None when it is above i32::MAX
\* (str::parse::<i32>().ok())
RECURSIVE ParseDigits(_, _, _, _)
ParseDigits(text, from, to, acc) ==
    IF from >= to THEN Some(acc)
    ELSE IF acc > (I32Max - DigitValue(text[from])) \div 10 THEN None
    ELSE ParseDigits(text, from + 1, to, acc * 10 + DigitValue(text[from]))

RECURSIVE PowerOfTen(_)
PowerOfTen(n) == IF n = 0 THEN 1 ELSE 10 * PowerOfTen(n - 1)

(* Token::lexer(input).next(): the next item of the logos lexer from pos.    *)
(* kind is "token" (Some(Ok(token))), "error" (Some(Err(()))) or "end"       *)
(* (None); pos is where the lexer stands afterwards. The longest rule wins,  *)
(* a #[token] over a #[regex] of the same length; comments and white space   *)
(* are skipped; a character that starts no rule is an error of that one      *)
(* character, and so is a literal whose callback answers None.               *)
RECURSIVE logos_next(_, _)
logos_next(text, pos) ==
    IF pos > Len(text) THEN [kind |-> "end", pos |-> pos]
    ELSE LET c == text[pos]
             cc == IF pos < Len(text) THEN c \o text[pos + 1] ELSE c
         IN  IF c \in Whitespace THEN logos_next(text, RunEnd(text, pos, Whitespace, TRUE))
             ELSE IF cc = "//" THEN logos_next(text, RunEnd(text, pos, {"\n"}, FALSE))
             ELSE IF c \in Letters
             THEN Then(RunEnd(text, pos, Letters \cup Digits, TRUE), LAMBDA end :
                     Then(Slice(text, pos, end), LAMBDA word :
                        [kind |-> "token", pos |-> end,
                         token |-> IF KeywordOf(word) = "Identifier"
                                   THEN [t |-> "Identifier", s |-> word]
                                   ELSE [t |-> KeywordOf(word)]]))
             ELSE IF c \in Digits
             THEN Then(RunEnd(text, pos, Digits, TRUE), LAMBDA end :
                     IF end < Len(text) /\ text[end] = "." /\ text[end + 1] \in Digits
                     THEN Then(RunEnd(text, end + 1, Digits, TRUE), LAMBDA last :
                             \* the value as the fraction the text writes (of few digits)
                             Then(ParseDigits(text, pos, end, 0), LAMBDA whole :
                                 Then(ParseDigits(text, end + 1, last, 0), LAMBDA part :
                                     [kind |-> "token", pos |-> last,
                                      token |-> [t |-> "FloatLiteral",
                                                 num |-> whole[1] * PowerOfTen(last - end - 1) + part[1],
                                                 den |-> PowerOfTen(last - end - 1)]])))
                     ELSE Then(ParseDigits(text, pos, end, 0), LAMBDA value :
                             IF value = None THEN [kind |-> "error", pos |-> end]
                             ELSE [kind |-> "token", pos |-> end,
                                   token |-> [t |-> "IntegerLiteral", i |-> value[1]]]))
             ELSE IF c = "\""
             THEN Then(RunEnd(text, pos + 1, {"\""}, FALSE), LAMBDA close :
                     IF close > Len(text) THEN [kind |-> "error", pos |-> pos + 1]
                     ELSE [kind |-> "token", pos |-> close + 1,
                           token |-> [t |-> "StringLiteral", s |-> Slice(text, pos + 1, close)]])
             ELSE IF pos < Len(text) /\ TwoCharToken(cc) # ""
             THEN [kind |-> "token", pos |-> pos + 2, token |-> [t |-> TwoCharToken(cc)]]
             ELSE IF OneCharToken(c) # ""
             THEN [kind |-> "token", pos |-> pos + 1, token |-> [t |-> OneCharToken(c)]]
             ELSE [kind |-> "error", pos |-> pos + 1]

\* Lexer::next: self.inner.next().and_then(Result::ok), an Option<Token>, and the
\* position the lexer is left at. An error item and the end of the text both give None.
Lexer_next(text, pos) ==
    Then(logos_next(text, pos), LAMBDA item :
        [token |-> IF item.kind = "token" THEN Some(item.token) ELSE None, pos |-> item.pos])

----------------------------------------------------------------------------
(* parser.rs *)

(* The Parser p: the text and the position its lexer stands at,             *)
(* current_token and peek_token (each an Option<Token>). A ParseResult is    *)
(* [ok, val, err, p]: the value or the ParseError variant, and the parser as *)
(* the call leaves it.                                                       *)

POk(val, p) == [ok |-> TRUE, val |-> val, err |-> "", p |-> p]
PErr(err, p) == [ok |-> FALSE, val |-> <<>>, err |-> err, p |-> p]

\* `let x = r?;` followed by k(x): an Err of r is returned as it is
Try(r, k(_)) == CHOOSE y \in {IF x.ok THEN k(x) ELSE x : x \in {r}} : TRUE

\* Parser::new
NewParser(text) ==
    Then(Lexer_next(text, 1), LAMBDA first :
        Then(Lexer_next(text, first.pos), LAMBDA second :
            [text |-> text, pos |-> second.pos,
             current_token |-> first.token, peek_token |-> second.token]))

next_token(p) ==
    Then(Lexer_next(p.text, p.pos), LAMBDA item :
        [p EXCEPT !.current_token = p.peek_token, !.peek_token = item.token, !.pos = item.pos])

\* the variant of the current token, "EOF" when there is none
Current(p) == IF p.current_token = None THEN "EOF" ELSE p.current_token[1].t

current_token_is(p, t) == Current(p) = t

peek_token_is(p, t) == p.peek_token # None /\ p.peek_token[1].t = t

expect_token(p, expected) ==
    IF current_token_is(p, expected) THEN POk(<<>>, next_token(p)) ELSE PErr("UnexpectedToken", p)

expect_identifier(p) ==
    IF current_token_is(p, "Identifier") THEN POk(p.current_token[1].s, next_token(p))
    ELSE IF p.current_token = None THEN PErr("UnexpectedEof", p)
    ELSE PErr("UnexpectedToken", p)

parse_type(p) ==
    LET t == Current(p)
    IN  IF t \in {"KeywordI32", "KeywordI64", "KeywordF32", "KeywordF64", "KeywordBool",
                  "KeywordString", "KeywordVoid", "Identifier"}
        THEN POk(CASE t = "KeywordI32" -> I32 [] t = "KeywordI64" -> I64 [] t = "KeywordF32" -> F32
                   [] t = "KeywordF64" -> F64 [] t = "KeywordBool" -> Bool
                   [] t = "KeywordString" -> StringT [] t = "KeywordVoid" -> Void
                   [] t = "Identifier" -> StructT(p.current_token[1].s),
                 next_token(p))
        ELSE PErr("UnexpectedToken", p)

\* the operator a token stands for at a precedence level: parse_logical_or ("or"),
\* parse_logical_and, parse_equality, parse_comparison, parse_term, parse_factor
LevelOperator(level, t) ==
    CASE level = "or" /\ t = "OperatorOr" -> "Or"
      [] level = "and" /\ t = "OperatorAnd" -> "And"
      [] level = "equality" /\ t = "OperatorEq" -> "Eq"
      [] level = "equality" /\ t = "OperatorNeq" -> "Neq"
      [] level = "comparison" /\ t = "OperatorLt" -> "Lt"
      [] level = "comparison" /\ t = "OperatorGt" -> "Gt"
      [] level = "comparison" /\ t = "OperatorLte" -> "Lte"
      [] level = "comparison" /\ t = "OperatorGte" -> "Gte"
      [] level = "term" /\ t = "OperatorAdd" -> "Add"
      [] level = "term" /\ t = "OperatorSubtract" -> "Subtract"
      [] level = "factor" /\ t = "OperatorMultiply" -> "Multiply"
      [] level = "factor" /\ t = "OperatorDivide" -> "Divide"
      [] OTHER -> ""

\* the level whose function a level calls for its operands; parse_factor calls parse_unary
TighterLevel(level) ==
    CASE level = "or" -> "and" [] level = "and" -> "equality" [] level = "equality" -> "comparison"
      [] level = "comparison" -> "term" [] level = "term" -> "factor" [] level = "factor" -> "unary"

RECURSIVE parse_statement(_), parse_block(_, _), parse_if_statement(_), parse_while_statement(_),
          parse_expression(_), parse_binary_level(_, _), parse_binary_rest(_, _, _),
          parse_unary(_), parse_primary(_), parse_arguments(_, _), parse_field_values(_, _),
          parse_field_accesses(_, _)

\* parse_block: the loop, statements being those parsed so far
parse_block(p, statements) ==
    IF current_token_is(p, "BraceClose") THEN POk(statements, p)
    ELSE Try(parse_statement(p), LAMBDA s : parse_block(s.p, Append(statements, s.val)))

\* the body of an if, an else or a while: parse_block when the current token is `{`,
\* else one statement
parse_branch(p) ==
    IF current_token_is(p, "BraceOpen") THEN parse_block(p, <<>>)
    ELSE Try(parse_statement(p), LAMBDA s : POk(<<s.val>>, s.p))

parse_if_statement(p) ==
    Try(expect_token(p, "KeywordIf"), LAMBDA kw :
    Try(parse_expression(kw.p), LAMBDA condition :
    Try(parse_branch(condition.p), LAMBDA then_branch :
        IF current_token_is(then_branch.p, "KeywordElse")
        THEN Then(next_token(then_branch.p), LAMBDA q :
                Try(IF current_token_is(q, "KeywordIf")
                    THEN Try(parse_if_statement(q), LAMBDA s : POk(<<s.val>>, s.p))
                    ELSE parse_branch(q),
                    LAMBDA else_branch :
                        POk(If(condition.val, then_branch.val, Some(else_branch.val)), else_branch.p)))
        ELSE POk(If(condition.val, then_branch.val, None), then_branch.p))))

parse_while_statement(p) ==
    Try(expect_token(p, "KeywordWhile"), LAMBDA kw :
    Try(parse_expression(kw.p), LAMBDA condition :
    Try(parse_branch(condition.p), LAMBDA body :
        POk(While(condition.val, body.val), body.p))))

\* parse_statement, with parse_variable_declaration, parse_return_statement and
\* parse_block_statement in their arms
parse_statement(p) ==
    IF current_token_is(p, "Identifier") /\ peek_token_is(p, "OperatorAssign")
    THEN Try(expect_identifier(p), LAMBDA name :
         Try(expect_token(name.p, "OperatorAssign"), LAMBDA eq :
         Try(parse_expression(eq.p), LAMBDA value :
         Try(expect_token(value.p, "Semicolon"), LAMBDA semi :
             POk(Assignment(name.val, value.val), semi.p)))))
    ELSE CASE Current(p) = "KeywordLet" ->
                Then(next_token(p), LAMBDA q :
                Then(IF current_token_is(q, "KeywordMut") THEN next_token(q) ELSE q, LAMBDA q1 :
                Try(expect_identifier(q1), LAMBDA name :
                Try(expect_token(name.p, "Colon"), LAMBDA colon :
                Try(parse_type(colon.p), LAMBDA var_type :
                Try(expect_token(var_type.p, "OperatorAssign"), LAMBDA eq :
                Try(parse_expression(eq.p), LAMBDA value :
                Try(expect_token(value.p, "Semicolon"), LAMBDA semi :
                    POk(VariableDeclaration(name.val, var_type.val, value.val,
                                            current_token_is(q, "KeywordMut")), semi.p)))))))))
           [] Current(p) = "KeywordReturn" ->
                Then(next_token(p), LAMBDA q :
                Try(IF current_token_is(q, "Semicolon") THEN POk(IntegerLiteral(0), q)
                    ELSE parse_expression(q), LAMBDA value :
                Try(expect_token(value.p, "Semicolon"), LAMBDA semi :
                    POk(Return(value.val), semi.p))))
           [] Current(p) = "KeywordIf" -> parse_if_statement(p)
           [] Current(p) = "KeywordWhile" -> parse_while_statement(p)
           [] Current(p) = "BraceOpen" ->
                Try(parse_block(next_token(p), <<>>), LAMBDA statements :
                Try(expect_token(statements.p, "BraceClose"), LAMBDA close :
                    POk(Block(statements.val), close.p)))
           [] OTHER ->
                Try(parse_expression(p), LAMBDA expr :
                Try(expect_token(expr.p, "Semicolon"), LAMBDA semi :
                    POk(ExpressionStmt(expr.val), semi.p)))

\* parse_expression = parse_assignment
parse_expression(p) ==
    Try(parse_binary_level("or", p), LAMBDA expr :
        IF current_token_is(expr.p, "OperatorAssign")
        THEN Try(parse_expression(next_token(expr.p)), LAMBDA value :
                IF expr.val.k = "Variable"
                THEN POk(BinaryExpression(expr.val, "Eq", value.val), value.p)
                ELSE PErr("InvalidSyntax", value.p))
        ELSE expr)

\* parse_logical_or, parse_logical_and, parse_equality, parse_comparison, parse_term and
\* parse_factor: an operand of the tighter level, then the loop over the level's operators
parse_binary_level(level, p) ==
    IF level = "unary" THEN parse_unary(p)
    ELSE Try(parse_binary_level(TighterLevel(level), p), LAMBDA left :
            parse_binary_rest(level, left.val, left.p))

parse_binary_rest(level, left, p) ==
    IF LevelOperator(level, Current(p)) # ""
    THEN Try(parse_binary_level(TighterLevel(level), next_token(p)), LAMBDA right :
            parse_binary_rest(level, BinaryExpression(left, LevelOperator(level, Current(p)), right.val),
                              right.p))
    ELSE IF level = "factor" /\ current_token_is(p, "KeywordAs")
    THEN Try(parse_type(next_token(p)), LAMBDA target_type :
            parse_binary_rest(level, TypeCast(left, target_type.val), target_type.p))
    ELSE POk(left, p)

parse_unary(p) ==
    CASE Current(p) = "OperatorSubtract" ->
            Try(parse_unary(next_token(p)), LAMBDA expr :
                POk(BinaryExpression(IntegerLiteral(0), "Subtract", expr.val), expr.p))
      [] Current(p) = "OperatorNot" ->
            Try(parse_unary(next_token(p)), LAMBDA expr :
                POk(BinaryExpression(expr.val, "Eq", BoolLiteral(FALSE)), expr.p))
      [] OTHER -> parse_primary(p)

\* parse_arguments: the loop, args being those parsed so far
parse_arguments(p, args) ==
    IF args = <<>> /\ current_token_is(p, "ParenClose") THEN POk(args, p)
    ELSE Try(parse_expression(p), LAMBDA arg :
            IF current_token_is(arg.p, "Comma")
            THEN parse_arguments(next_token(arg.p), Append(args, arg.val))
            ELSE POk(Append(args, arg.val), arg.p))

\* parse_primary, the loop over the fields of a struct initialization
parse_field_values(p, fields) ==
    IF current_token_is(p, "BraceClose") THEN POk(fields, p)
    ELSE Try(expect_identifier(p), LAMBDA field_name :
         Try(expect_token(field_name.p, "Colon"), LAMBDA colon :
         Try(parse_expression(colon.p), LAMBDA value :
             IF current_token_is(value.p, "Comma")
             THEN parse_field_values(next_token(value.p), Append(fields, <<field_name.val, value.val>>))
             ELSE POk(Append(fields, <<field_name.val, value.val>>), value.p))))

\* parse_primary, the loop over `.field`
parse_field_accesses(p, expr) ==
    IF current_token_is(p, "Dot")
    THEN Try(expect_identifier(next_token(p)), LAMBDA field_name :
            parse_field_accesses(field_name.p, FieldAccess(expr, field_name.val)))
    ELSE POk(expr, p)

parse_primary(p) ==
    LET t == Current(p)
    IN  CASE t = "IntegerLiteral" -> POk(IntegerLiteral(p.current_token[1].i), next_token(p))
          [] t = "FloatLiteral" ->
                POk(FloatLiteral(p.current_token[1].num, p.current_token[1].den), next_token(p))
          [] t = "StringLiteral" -> POk(StringLiteral(p.current_token[1].s), next_token(p))
          [] t = "KeywordTrue" -> POk(BoolLiteral(TRUE), next_token(p))
          [] t = "KeywordFalse" -> POk(BoolLiteral(FALSE), next_token(p))
          [] t = "Identifier" ->
                Then(p.current_token[1].s, LAMBDA name :
                Then(next_token(p), LAMBDA q :
                    IF name \in {"move", "borrow", "mut_borrow"}
                    THEN Try(expect_token(q, "ParenOpen"), LAMBDA open :
                         Try(parse_expression(open.p), LAMBDA expr :
                         Try(expect_token(expr.p, "ParenClose"), LAMBDA close :
                             POk(IF name = "move" THEN Move(expr.val)
                                 ELSE Borrow(expr.val, name = "mut_borrow"), close.p))))
                    ELSE IF current_token_is(q, "ParenOpen")
                    THEN Try(parse_arguments(next_token(q), <<>>), LAMBDA args :
                         Try(expect_token(args.p, "ParenClose"), LAMBDA close :
                             POk(FunctionCall(name, args.val), close.p)))
                    ELSE IF current_token_is(q, "BraceOpen")
                    THEN Try(parse_field_values(next_token(q), <<>>), LAMBDA fields :
                         Try(expect_token(fields.p, "BraceClose"), LAMBDA close :
                             POk(StructInitialization(name, fields.val), close.p)))
                    ELSE parse_field_accesses(q, Variable(name))))
          [] t = "ParenOpen" ->
                Try(parse_expression(next_token(p)), LAMBDA expr :
                Try(expect_token(expr.p, "ParenClose"), LAMBDA close : POk(expr.val, close.p)))
          [] t = "EOF" -> PErr("UnexpectedEof", p)
          [] OTHER -> PErr("UnexpectedToken", p)

\* parse_struct, the loop over the fields (closing = "BraceClose", StructField), and
\* parse_parameters, its loop (closing = "ParenClose", Parameter): `name: type` items
\* separated by commas, items being those parsed so far
RECURSIVE parse_typed_names(_, _, _)
parse_typed_names(p, closing, items) ==
    IF current_token_is(p, closing) THEN POk(items, p)
    ELSE Try(expect_identifier(p), LAMBDA name :
         Try(expect_token(name.p, "Colon"), LAMBDA colon :
         Try(parse_type(colon.p), LAMBDA ty :
             Then(Append(items, IF closing = "BraceClose" THEN StructField(name.val, ty.val)
                                ELSE Parameter(name.val, ty.val)), LAMBDA more :
                 IF current_token_is(ty.p, "Comma")
                 THEN parse_typed_names(next_token(ty.p), closing, more)
                 ELSE POk(more, ty.p)))))

parse_struct(p) ==
    Try(expect_token(p, "KeywordStruct"), LAMBDA kw :
    Try(expect_identifier(kw.p), LAMBDA name :
    Try(expect_token(name.p, "BraceOpen"), LAMBDA open :
    Try(parse_typed_names(open.p, "BraceClose", <<>>), LAMBDA fields :
    Try(expect_token(fields.p, "BraceClose"), LAMBDA close :
        POk(Struct(name.val, fields.val), close.p))))))

parse_function(p) ==
    Try(expect_token(p, "KeywordFn"), LAMBDA kw :
    Try(expect_identifier(kw.p), LAMBDA name :
    Try(expect_token(name.p, "ParenOpen"), LAMBDA open :
    Try(parse_typed_names(open.p, "ParenClose", <<>>), LAMBDA params :
    Try(expect_token(params.p, "ParenClose"), LAMBDA close :
    Try(expect_token(close.p, "Arrow"), LAMBDA arrow :
    Try(parse_type(arrow.p), LAMBDA return_type :
    Try(expect_token(return_type.p, "BraceOpen"), LAMBDA brace :
    Try(parse_block(brace.p, <<>>), LAMBDA body :
    Try(expect_token(body.p, "BraceClose"), LAMBDA end :
        POk(Function(name.val, params.val, return_type.val, body.val), end.p)))))))))))

\* parse_program: the loop, functions and structs being those parsed so far
RECURSIVE parse_program(_, _, _)
parse_program(p, functions, structs) ==
    CASE Current(p) = "EOF" -> POk(Program(functions, structs), p)
      [] Current(p) = "KeywordFn" ->
            Try(parse_function(p), LAMBDA f : parse_program(f.p, Append(functions, f.val), structs))
      [] Current(p) = "KeywordStruct" ->
            Try(parse_struct(p), LAMBDA s :
                parse_program(IF current_token_is(s.p, "Semicolon") THEN next_token(s.p) ELSE s.p,
                              functions, Append(structs, s.val)))
      [] Current(p) = "Semicolon" -> parse_program(next_token(p), functions, structs)
      [] OTHER -> PErr("InvalidSyntax", p)

----------------------------------------------------------------------------
(* The type checker's handlers, each applied alone: check_statement to one  *)
(* statement, check_expression to one expression, check_program to one      *)
(* program. focus holds the input and the checker the handler starts from.  *)

\* a checker in the body of a function returning `expected`, knowing a struct Holder
\* { f: expected }, a function take(expected) -> I32, and the variables a: actual and
\* t: expected
BoundaryChecker(expected, actual) ==
    [NewTypeChecker EXCEPT
        !.variables = Insert(Insert(EmptyMap, "a", VariableInfo(actual, "Available")),
                             "t", VariableInfo(expected, "Available")),
        !.functions = Insert(@, "take", FunctionInfo(I32, <<expected>>)),
        !.structs = Insert(Insert(EmptyMap, "Holder", Insert(EmptyMap, "f", expected)),
                           "Point", Insert(EmptyMap, "a", I32)),
        !.current_function_return = Some(expected)]

\* the statements that hand the variable a to a typed boundary
BoundaryStatements(expected) ==
    {VariableDeclaration("n", expected, Variable("a"), FALSE),
     Assignment("t", Variable("a")),
     Return(Variable("a")),
     ExpressionStmt(FunctionCall("take", <<Variable("a")>>)),
     ExpressionStmt(StructInitialization("Holder", <<<<"f", Variable("a")>>>>))}

(* The scoped statements: a Block, a While and an If (with and without      *)
(* else) over bodies of up to max_body statements that declare, move,       *)
(* borrow, assign and nest, in a checker that holds x: I32 and b: Bool.     *)
ScopedStatements(max_body) ==
    LET x == Variable("x")
        pool == {VariableDeclaration("y", I32, Move(x), FALSE),
                 VariableDeclaration("y", I32, x, FALSE),
                 VariableDeclaration("x", I32, IntegerLiteral(1), TRUE),
                 ExpressionStmt(Borrow(x, FALSE)),
                 Assignment("x", IntegerLiteral(1)),
                 Block(<<VariableDeclaration("z", I32, Move(x), FALSE)>>)}
        bodies == UNION {[1..n -> pool] : n \in 0..max_body}
        conditions == {BoolLiteral(TRUE), Variable("b"), Move(Variable("b"))}
    IN  {Block(b) : b \in bodies}
        \cup {While(c, b) : c \in conditions, b \in bodies}
        \cup {If(c, b, None) : c \in conditions, b \in bodies}
        \cup {If(BoolLiteral(TRUE), b, Some(<<s>>)) : b \in bodies, s \in pool}

ScopedChecker ==
    [NewTypeChecker EXCEPT
        !.variables = Insert(Insert(EmptyMap, "x", VariableInfo(I32, "Available")),
                             "b", VariableInfo(Bool, "Available")),
        !.current_function_return = Some(I32)]

(* The declarations: of a name in the table (x, of any type and state, or p, *)
(* as check_function enters a parameter) or of a fresh name, with any type,  *)
(* mutability and initializer; and of a name declared earlier in the same    *)
(* block or in an enclosing one.                                             *)
DeclarationChecks ==
    LET x == Variable("x")
        table(tx, sx) == Insert(Insert(EmptyMap, "x", VariableInfo(tx, sx)),
                                "p", VariableInfo(I32, "Available"))
        start(tx, sx) == [NewTypeChecker EXCEPT !.variables = table(tx, sx),
                                                !.current_function_return = Some(I32)]
        q(ty, mutable) == VariableDeclaration("q", ty, IntegerLiteral(1), mutable)
        again == {<<q(I32, FALSE), q(ty, m)>> : ty \in {I32, F32}, m \in BOOLEAN}
                 \cup {<<q(I32, FALSE), Block(<<q(ty, m)>>)>> : ty \in {I32, F32}, m \in BOOLEAN}
                 \cup {<<q(I32, FALSE), While(BoolLiteral(TRUE), <<Block(<<q(ty, m)>>)>>)>> :
                            ty \in {I32, F32}, m \in BOOLEAN}
                 \cup {<<q(I32, FALSE), If(BoolLiteral(FALSE), <<>>, Some(<<q(ty, m)>>))>> :
                            ty \in {I32, F32}, m \in BOOLEAN}
    IN  {[about |-> "declaration", checker |-> start(tx, sx),
          statement |-> VariableDeclaration(n, ty, init, m)] :
            tx \in {I32, StringT}, sx \in VariableState, n \in {"x", "p", "fresh"}, ty \in Types,
            init \in {IntegerLiteral(1), x, Move(x), Variable("nowhere")}, m \in BOOLEAN}
        \cup {[about |-> "redeclaration", checker |-> start(I32, "Available"),
               statement |-> Block(b)] : b \in again}

(* The statements after a move of x: I32, in a checker that also holds y: I32 *)
(* and b: Bool. "later": one statement checked in the table as `move x` left  *)
(* it; "block": a Block that moves x, goes on with up to max_body statements  *)
(* and then reads x; "nested": the same with the move inside a nested block   *)
(* of its own. The statements assign to x, borrow, move and read it, declare  *)
(* x again, and do so inside a block, an if and a while.                      *)
MovedStatements(max_body) ==
    LET x == Variable("x")
        one == IntegerLiteral(1)
        plain == {Assignment("x", one), Assignment("x", Variable("y")), Assignment("y", one),
                  ExpressionStmt(Borrow(x, FALSE)), ExpressionStmt(Borrow(x, TRUE)),
                  ExpressionStmt(Move(x)), VariableDeclaration("z", I32, x, FALSE),
                  VariableDeclaration("x", I32, one, TRUE)}
        pool == plain
                \cup {Block(<<s>>) : s \in plain}
                \cup {If(Variable("b"), <<Assignment("x", one)>>, Some(<<Assignment("x", one)>>)),
                      While(Variable("b"), <<Assignment("x", one)>>)}
        move == ExpressionStmt(Move(x))
        read == ExpressionStmt(x)
        table(sx) == [n \in {"x", "y", "b"} |->
                        VariableInfo(IF n = "b" THEN Bool ELSE I32, IF n = "x" THEN sx ELSE "Available")]
        start(sx) == [NewTypeChecker EXCEPT !.variables = table(sx), !.current_function_return = Some(I32)]
    IN  {[about |-> "moved", form |-> "later", between |-> <<s>>, checker |-> start("Moved"),
          statement |-> s] : s \in pool}
        \cup
        UNION {{[about |-> "moved", form |-> form, between |-> ss, checker |-> start("Available"),
                 statement |-> Block((IF form = "nested" THEN <<Block(<<move>>)>> ELSE <<move>>)
                                     \o ss \o <<read>>)] :
                    ss \in UNION {[1..n -> pool] : n \in 0..max_body}} : form \in {"block", "nested"}}

\* the inputs of check_statement
CheckedStatements ==
    DeclarationChecks
    \cup
    MovedStatements(MaxBody)
    \cup
    {[about |-> "scope", statement |-> s, checker |-> ScopedChecker] : s \in ScopedStatements(MaxBody)}
    \cup
    UNION {{[about |-> "boundary", statement |-> s, checker |-> BoundaryChecker(expected, actual)] :
                s \in BoundaryStatements(expected), actual \in Types} : expected \in Types}

(* The calls: of a user function take(I32, F32) -> Bool, of builtins, and of *)
(* names in neither list, with no argument up to three, each a literal or a  *)
(* variable of one of four types.                                            *)
CheckedCalls ==
    LET start == [NewTypeChecker EXCEPT
                    !.variables = [n \in {"i", "f", "s", "d"} |->
                                      VariableInfo(CASE n = "i" -> I32 [] n = "f" -> F32
                                                     [] n = "s" -> StringT [] n = "d" -> F64,
                                                   "Available")],
                    !.functions = Insert(@, "take", FunctionInfo(Bool, <<I32, F32>>))]
        arguments == {IntegerLiteral(1), Variable("i"), Variable("f"), Variable("s"), Variable("d")}
    IN  {[about |-> "call", checker |-> start, expression |-> FunctionCall(n, args)] :
            n \in {"take", "print_i32", "get_time", "nowhere", "draw_pixel"},
            args \in UNION {[1..k -> arguments] : k \in 0..3}}

(* The casts `v as T` of a variable of every type to every type, and of the *)
(* integer literal 1.                                                        *)
CheckedCasts ==
    LET all == Types \cup {StructT("Holder")}
    IN  {[about |-> "cast", from |-> a,
          checker |-> [NewTypeChecker EXCEPT !.variables = Insert(EmptyMap, "v", VariableInfo(a, "Available"))],
          expression |-> TypeCast(Variable("v"), target)] : a \in all, target \in all}
        \cup
        {[about |-> "cast", from |-> I32, checker |-> NewTypeChecker,
          expression |-> TypeCast(IntegerLiteral(1), target)] : target \in all}

\* the inputs of check_expression
CheckedInExpression == CheckedCalls \cup CheckedCasts

(* The programs whose main calls `later`, declared before main or after it, *)
(* with an argument list that fits later(x: f32) or does not, or calls a     *)
(* name no function has.                                                     *)
CallOrderPrograms ==
    LET later == Function("later", <<Parameter("x", F32)>>, I32, <<Return(IntegerLiteral(0))>>)
        main(call) == Function("main", <<>>, I32, <<ExpressionStmt(call), Return(IntegerLiteral(0))>>)
        calls == {FunctionCall(n, args) :
                    n \in {"later", "nowhere"},
                    args \in {<<>>, <<IntegerLiteral(1)>>, <<FloatLiteral(1, 2)>>, <<StringLiteral("s")>>,
                              <<IntegerLiteral(1), IntegerLiteral(2)>>}}
    IN  {[about |-> "call order", checker |-> NewTypeChecker,
          program |-> Program(IF first THEN <<main(call), later>> ELSE <<later, main(call)>>, <<>>)] :
            call \in calls, first \in BOOLEAN}

(* The programs with one or two functions and no struct up to two, where the *)
(* second of each may repeat the name of the first, and parameter and field  *)
(* lists may repeat a name.                                                  *)
DuplicatePrograms ==
    LET body == <<Return(IntegerLiteral(0))>>
        params == {<<>>, <<Parameter("x", I32)>>, <<Parameter("x", I32), Parameter("x", F32)>>,
                   <<Parameter("x", I32), Parameter("y", I32)>>}
        fields == {<<StructField("a", I32)>>, <<StructField("a", I32), StructField("a", F32)>>,
                   <<StructField("a", I32), StructField("b", F32)>>}
        functions == {<<Function("main", ps, I32, body)>> : ps \in params}
                     \cup {<<Function("main", <<>>, I32, body), Function(n, ps, I32, body)>> :
                              n \in {"main", "other"}, ps \in params}
        structs == {<<>>} \cup {<<Struct("P", fs)>> : fs \in fields}
                   \cup {<<Struct("P", <<StructField("a", I32)>>), Struct(n, fs)>> :
                            n \in {"P", "Q"}, fs \in fields}
    IN  {[about |-> "duplicates", checker |-> NewTypeChecker, program |-> Program(f, st)] :
            f \in functions, st \in structs}

\* the inputs of check_program
CheckedPrograms == CallOrderPrograms \cup DuplicatePrograms

(* The source texts: four programs, each as it is and with one character that *)
(* starts no lexical rule put before the character at each position, or     *)
(* after the last.                                                           *)
SourceTexts ==
    <<
        \* fn main() -> i32 { return 0; }
          <<"f", "n", " ", "m", "a", "i", "n", "(", ")", " ", "-", ">", " ", "i", "3", "2", " ",
            "{", " ", "r", "e", "t", "u", "r", "n", " ", "0", ";", " ", "}">>,
        \* struct P { a: i32, b: f32 }; fn main() -> i32 { let p: P = P { a: 1, b: 2.5 }; return p.a; }
          <<"s", "t", "r", "u", "c", "t", " ", "P", " ", "{", " ", "a", ":", " ", "i", "3", "2",
            ",", " ", "b", ":", " ", "f", "3", "2", " ", "}", ";", " ", "f", "n", " ", "m", "a",
            "i", "n", "(", ")", " ", "-", ">", " ", "i", "3", "2", " ", "{", " ", "l", "e", "t",
            " ", "p", ":", " ", "P", " ", "=", " ", "P", " ", "{", " ", "a", ":", " ", "1", ",",
            " ", "b", ":", " ", "2", ".", "5", " ", "}", ";", " ", "r", "e", "t", "u", "r", "n",
            " ", "p", ".", "a", ";", " ", "}">>,
        \* fn f(a: i32) -> void { print_i32(a + 1); } fn main() -> i32 { f(1); return 0; }
          <<"f", "n", " ", "f", "(", "a", ":", " ", "i", "3", "2", ")", " ", "-", ">", " ", "v",
            "o", "i", "d", " ", "{", " ", "p", "r", "i", "n", "t", "_", "i", "3", "2", "(", "a",
            " ", "+", " ", "1", ")", ";", " ", "}", " ", "f", "n", " ", "m", "a", "i", "n", "(",
            ")", " ", "-", ">", " ", "i", "3", "2", " ", "{", " ", "f", "(", "1", ")", ";", " ",
            "r", "e", "t", "u", "r", "n", " ", "0", ";", " ", "}">>,
        \* ;
          <<";">>
    >>

\* the characters of the model that start no lexical rule
BadCharacters == {"@", "$"}

\* text with character c put before position at
InsertAt(text, at, c) == SubSeq(text, 1, at - 1) \o <<c>> \o SubSeq(text, at, Len(text))

ParsedSources ==
    {[about |-> "source", checker |-> NewTypeChecker, bad |-> FALSE, at |-> 0, clean |-> SourceTexts[n],
      text |-> SourceTexts[n]] : n \in 1..Len(SourceTexts)}
    \cup
    UNION {{[about |-> "source", checker |-> NewTypeChecker, bad |-> TRUE, at |-> at, clean |-> SourceTexts[n],
             text |-> InsertAt(SourceTexts[n], at, c)] :
                at \in 1..(Len(SourceTexts[n]) + 1), c \in BadCharacters} : n \in 1..Len(SourceTexts)}

\* words a type may be spelled with, and words that spell none
TypeSpellings ==
    {<<"i", "3", "2">>,
     <<"i", "6", "4">>,
     <<"f", "3", "2">>,
     <<"f", "6", "4">>,
     <<"b", "o", "o", "l">>,
     <<"s", "t", "r", "i", "n", "g">>,
     <<"v", "o", "i", "d">>,
     <<"P">>,
     <<"i", "3">>,
     <<"i", "3", "2", "x">>,
     <<"i", "n", "t">>,
     <<"_", "v">>,
     <<"V", "o", "i", "d">>,
     <<"S", "t", "r", "i", "n", "g">>,
     <<"B", "o", "o", "l">>,
     <<"f", "n">>,
     <<"1">>,
     <<"(">>}

\* Display::fmt for Type that prints the variant's name, as Debug does for a
\* variant without fields
fmt_debug(ty) ==
    CASE ty = I32 -> <<"I", "3", "2">> [] ty = I64 -> <<"I", "6", "4">> [] ty = F32 -> <<"F", "3", "2">> [] ty = F64 -> <<"F", "6", "4">>
      [] ty = Bool -> <<"B", "o", "o", "l">> [] ty = StringT -> <<"S", "t", "r", "i", "n", "g">> [] ty = Void -> <<"V", "o", "i", "d">>
      [] OTHER -> CHOOSE w \in TypeSpellings : Slice(w, 1, Len(w) + 1) = ty.name

\* impl fmt::Display for Type: the characters written; a struct's name is written
\* as it is
fmt(ty) ==
    CASE ty = I32 -> <<"i", "3", "2">> [] ty = I64 -> <<"i", "6", "4">> [] ty = F32 -> <<"f", "3", "2">> [] ty = F64 -> <<"f", "6", "4">>
      [] ty = Bool -> <<"b", "o", "o", "l">> [] ty = StringT -> <<"s", "t", "r", "i", "n", "g">> [] ty = Void -> <<"v", "o", "i", "d">>
      [] OTHER -> CHOOSE w \in TypeSpellings : Slice(w, 1, Len(w) + 1) = ty.name

\* the types parse_type produces from the spellings
ProducedTypes ==
    {r.val : r \in {q \in {parse_type(NewParser(w)) : w \in TypeSpellings} : q.ok}}

\* `fn f(a: T) -> T { }` with the type as Display prints it
PrintedTypes ==
    {[about |-> "type", checker |-> NewTypeChecker, ty |-> ty,
      text |-> <<"f", "n", " ", "f", "(", "a", ":", " ">> \o fmt(ty) \o <<")", " ", "-", ">", " ">> \o fmt(ty) \o <<" ", "{", " ", "}">>] : ty \in ProducedTypes}

\* the sequences of a sequence, one after the other
RECURSIVE Flatten(_)
Flatten(seqs) == IF seqs = <<>> THEN <<>> ELSE Head(seqs) \o Flatten(Tail(seqs))

\* statements as they are written and as the AST holds them
Written(name) ==
    CASE name = "a" -> [text |-> <<"a", "(", ")", ";">>, ast |-> ExpressionStmt(FunctionCall("a", <<>>))]
      [] name = "b" -> [text |-> <<"b", "(", ")", ";">>, ast |-> ExpressionStmt(FunctionCall("b", <<>>))]
      [] name = "c" -> [text |-> <<"c", "(", ")", ";">>, ast |-> ExpressionStmt(FunctionCall("c", <<>>))]
      [] name = "x" -> [text |-> <<"x", " ", "=", " ", "1", ";">>,
                        ast |-> Assignment("x", IntegerLiteral(1))]
      [] name = "r" -> [text |-> <<"r", "e", "t", "u", "r", "n", " ", "2", ";">>,
                        ast |-> Return(IntegerLiteral(2))]
      [] name = "true" -> [text |-> <<"t", "r", "u", "e">>, ast |-> BoolLiteral(TRUE)]
      [] name = "less" -> [text |-> <<"x", " ", "<", " ", "1">>,
                           ast |-> BinaryExpression(Variable("x"), "Lt", IntegerLiteral(1))]

\* ` { S }` for the statements named
Braced(names) ==
    <<" ", "{">> \o Flatten([i \in 1..Len(names) |-> <<" ">> \o Written(names[i]).text]) \o <<" ", "}">>

(* The texts `fn main() -> i32 { if c { S1 } else { S2 } R }`, the same      *)
(* without else, and `fn main() -> i32 { while c { S } R }`: c is `true` or   *)
(* `x < 1`, S1 up to max_body statements, S2 and R empty or not. Each comes   *)
(* with the parts it was written from.                                       *)
BranchTexts(max_body) ==
    LET lists == UNION {[1..n -> {"a", "x"}] : n \in 0..max_body}
        header == <<"f", "n", " ", "m", "a", "i", "n", "(", ")", " ", "-", ">", " ", "i", "3", "2", " ", "{">>
    IN  {[about |-> "branches", checker |-> NewTypeChecker,
          kind |-> kind, condition |-> c, s1 |-> s1, s2 |-> s2, rest |-> rest,
          text |-> header
                   \o (IF kind = "while" THEN <<" ", "w", "h", "i", "l", "e">> ELSE <<" ", "i", "f">>)
                   \o <<" ">> \o Written(c).text \o Braced(s1)
                   \o (IF kind = "if else" THEN <<" ", "e", "l", "s", "e">> \o Braced(s2) ELSE <<>>)
                   \o Flatten([i \in 1..Len(rest) |-> <<" ">> \o Written(rest[i]).text])
                   \o <<" ", "}">>] :
            kind \in {"if else", "if", "while"}, c \in {"true", "less"}, s1 \in lists,
            s2 \in {<<>>, <<"b">>}, rest \in {<<>>, <<"c">>, <<"c", "r">>}}

InitChecker ==
    /\ stage \in {"statement", "expression", "parsed", "source"}
    /\ focus \in CASE stage = "statement" -> CheckedStatements
                   [] stage = "expression" -> CheckedInExpression
                   [] stage = "parsed" -> CheckedPrograms
                   [] stage = "source" -> ParsedSources \cup BranchTexts(MaxBody) \cup PrintedTypes
    /\ program = IF stage = "parsed" THEN focus.program ELSE Program(<<>>, <<>>)
    /\ checker = focus.checker
    /\ overflow_checks = TRUE
    /\ interp = NewInterpreter(<<>>, FALSE, overflow_checks, MaxFuel)
    /\ outcome = NoOutcome

\* self.check_statement(statement): the result, and the checker as the call leaves it
CheckStatement ==
    /\ stage = "statement"
    /\ \E r \in {check_statement(focus.statement, checker)} :
           /\ outcome' = [ok |-> r.ok, ty |-> r.ty, err |-> r.err]
           /\ checker' = r.c
    /\ stage' = "statement checked"
    /\ UNCHANGED <<program, interp, focus, overflow_checks>>

\* parser::Parser::new(&source_code).parse_program()?
Parse ==
    /\ stage = "source"
    /\ \E r \in {parse_program(NewParser(focus.text), <<>>, <<>>)} :
           /\ stage' = IF r.ok THEN "parsed" ELSE "parse failed"
           /\ program' = IF r.ok THEN r.val ELSE program
           /\ outcome' = [status |-> IF r.ok THEN "ok" ELSE "error", msg |-> r.err]
    /\ UNCHANGED <<checker, interp, focus, overflow_checks>>

SpecChecker == InitChecker /\ [][CheckStatement \/ CheckExpression \/ Parse \/ Check]_vars

\* C11: at a variable initializer, an assignment, a return value, a call argument and
\* a struct-field value, an expression of type A is accepted for the target type T
\* exactly when A = T or (A, T) is (I32, F32), (I32, F64), (F32, F64) or (I32, I64);
\* every other pair, every narrowing pair included, is rejected.
BoundaryAcceptsWidening ==
    (stage = "statement checked" /\ focus.about = "boundary") =>
        LET actual == focus.checker.variables["a"].var_type
            target == focus.checker.current_function_return[1]
        IN  outcome.ok <=>
                \/ actual = target
                \/ <<actual.t, target.t>> \in {<<"I32", "F32">>, <<"I32", "F64">>,
                                               <<"F32", "F64">>, <<"I32", "I64">>}

\* C11 witness: an I32 was accepted as a call argument for an F64 parameter
I32WidenedToF64 ==
    /\ stage = "statement checked"
    /\ focus.about = "boundary"
    /\ focus.statement = [k |-> "Expression",
                          expr |-> [k |-> "FunctionCall", name |-> "take",
                                    args |-> <<[k |-> "Variable", name |-> "a"]>>]]
    /\ focus.checker.variables["a"].var_type.t = "I32"
    /\ focus.checker.functions["take"].params[1].t = "F64"
    /\ outcome.ok

\* C12: when a Block, a While or an If has been checked without error, the symbol
\* table (names, types, states) is the table at entry to its body (for a While and an
\* If: the table the condition left), so declarations, moves and borrows made inside
\* are gone; the else branch of an If is checked from the table at entry to the then
\* branch, so an If is accepted exactly when each branch is accepted from that table.
ScopeLeavesTableAtEntry ==
    (stage = "statement checked" /\ focus.about = "scope") =>
        \A entry \in {IF focus.statement.k = "Block" THEN focus.checker
                      ELSE check_expression(focus.statement.condition, focus.checker).c} :
            /\ outcome.ok => checker.variables = entry.variables
            /\ (focus.statement.k = "If" /\ focus.statement.else_branch # <<>>) =>
                  (outcome.ok <=>
                      /\ check_statements(focus.statement.then_branch, 1, entry).ok
                      /\ check_statements(focus.statement.else_branch[1], 1, entry).ok)

\* C12 witness: an If whose then branch moved x into y and whose else branch declared
\* y from x was accepted, and x is Available afterwards
MoveInBranchForgotten ==
    /\ stage = "statement checked"
    /\ focus.about = "scope"
    /\ focus.statement.k = "If"
    /\ focus.statement.then_branch
         = <<[k |-> "VariableDeclaration", name |-> "y", var_type |-> [t |-> "I32", name |-> ""],
              value |-> [k |-> "Move", expression |-> [k |-> "Variable", name |-> "x"]],
              mutable |-> FALSE]>>
    /\ focus.statement.else_branch
         = <<<<[k |-> "VariableDeclaration", name |-> "y", var_type |-> [t |-> "I32", name |-> ""],
                value |-> [k |-> "Variable", name |-> "x"], mutable |-> FALSE]>>>>
    /\ outcome.ok
    /\ checker.variables["x"].state = "Available"
    /\ "y" \notin DOMAIN checker.variables

\* C13: a VariableDeclaration whose name is in the symbol table (put there for a
\* parameter, by an earlier declaration of the same block or by one of an enclosing
\* block) fails with DuplicateVariable of that name, whatever its type, mutability and
\* initializer, and leaves the symbol table as it found it; a declaration of a name
\* that is not in the table never fails with DuplicateVariable.
DuplicateDeclarationRejected ==
    /\ (stage = "statement checked" /\ focus.about = "declaration") =>
          IF focus.statement.name \in DOMAIN focus.checker.variables
          THEN /\ ~outcome.ok
               /\ outcome.err = [kind |-> "DuplicateVariable", name |-> focus.statement.name,
                                 expected |-> [t |-> "Void", name |-> ""],
                                 found |-> [t |-> "Void", name |-> ""]]
               /\ checker = focus.checker
          ELSE outcome.err.kind # "DuplicateVariable"
    /\ (stage = "statement checked" /\ focus.about = "redeclaration") =>
          /\ ~outcome.ok
          /\ outcome.err.kind = "DuplicateVariable" /\ outcome.err.name = "q"
          /\ checker.variables
               = [n \in DOMAIN focus.checker.variables \cup {"q"} |->
                    IF n = "q" THEN [var_type |-> [t |-> "I32", name |-> ""], state |-> "Available"]
                    ELSE focus.checker.variables[n]]

\* C13 witness: `let mut p: f64 = move(x);` was rejected for the name p, which the
\* table held as an I32, and x was not moved
ParameterRedeclared ==
    /\ stage = "statement checked"
    /\ focus.about = "declaration"
    /\ focus.statement.name = "p" /\ focus.statement.var_type.t = "F64" /\ focus.statement.mutable
    /\ focus.statement.value.k = "Move"
    /\ outcome.err.kind = "DuplicateVariable"
    /\ checker.variables["x"].state = "Available"

\* C14: a call is accepted exactly when its name is in the signature table (the
\* builtins and every function of the program, declared before the caller or after
\* it), it has as many arguments as the function has parameters, and each argument's
\* type is compatible with the parameter's; it then has the declared return type.
\* Otherwise it fails with UndefinedFunction, else ParameterCountMismatch, else
\* TypeMismatch for the first argument that does not fit.
CallMatchesSignature ==
    /\ (stage = "expression checked" /\ focus.about = "call") =>
          LET call == focus.expression
              table == focus.checker.functions
              type_of(e) == IF e.k = "IntegerLiteral" THEN [t |-> "I32", name |-> ""]
                            ELSE focus.checker.variables[e.name].var_type
              fits(target, actual) ==
                  \/ actual = target
                  \/ <<actual.t, target.t>> \in {<<"I32", "F32">>, <<"I32", "F64">>,
                                                 <<"F32", "F64">>, <<"I32", "I64">>}
              misfits == {i \in 1..Len(call.args) :
                            ~fits(table[call.name].params[i], type_of(call.args[i]))}
          IN  IF call.name \notin DOMAIN table
              THEN ~outcome.ok /\ outcome.err.kind = "UndefinedFunction"
                   /\ outcome.err.name = call.name
              ELSE IF Len(call.args) # Len(table[call.name].params)
              THEN ~outcome.ok /\ outcome.err.kind = "ParameterCountMismatch"
                   /\ outcome.err.expected = Len(table[call.name].params)
                   /\ outcome.err.found = Len(call.args)
              ELSE IF misfits # {}
              THEN LET first == CHOOSE i \in misfits : \A j \in misfits : i <= j
                   IN  ~outcome.ok /\ outcome.err.kind = "TypeMismatch"
                       /\ outcome.err.expected = table[call.name].params[first]
                       /\ outcome.err.found = type_of(call.args[first])
              ELSE outcome.ok /\ outcome.ty = table[call.name].return_type
    /\ (stage \in {"checked", "rejected"} /\ focus.about = "call order") =>
          LET main == CHOOSE f \in {focus.program.functions[i] : i \in 1..2} : f.name = "main"
              call == main.body[1].expr
          IN  outcome.msg = CASE call.name # "later" -> "UndefinedFunction"
                              [] Len(call.args) # 1 -> "ParameterCountMismatch"
                              [] call.args[1].k = "StringLiteral" -> "TypeMismatch"
                              [] OTHER -> "None"

\* C14 witness: main, declared before later(x: f32), called later(1) and the program
\* was accepted
ForwardCallAccepted ==
    /\ stage = "checked"
    /\ focus.about = "call order"
    /\ focus.program.functions[1].name = "main"
    /\ focus.program.functions[1].body[1].expr
         = [k |-> "FunctionCall", name |-> "later", args |-> <<[k |-> "IntegerLiteral", i |-> 1]>>]
    /\ outcome.status = "ok"

\* whether two elements of the sequence have the same name
NameRepeats(items) == \E i, j \in 1..Len(items) : i < j /\ items[i].name = items[j].name

\* C15: an accepted program has no two functions of one name, no two structs of one
\* name, no struct with two fields of one name and no function with two parameters of
\* one name.
AcceptedNamesUnique ==
    (stage = "checked" /\ focus.about = "duplicates") =>
        /\ ~NameRepeats(program.functions)
        /\ ~NameRepeats(program.structs)
        /\ \A i \in 1..Len(program.structs) : ~NameRepeats(program.structs[i].fields)
        /\ \A i \in 1..Len(program.functions) : ~NameRepeats(program.functions[i].params)

\* C15, the part that holds: a program that repeats a function name, a struct name or
\* a parameter name is rejected with DuplicateFunction, DuplicateStruct or
\* DuplicateVariable; repeated struct names are reported first, then function names.
RepeatedNamesRejected ==
    (stage \in {"checked", "rejected"} /\ focus.about = "duplicates") =>
        IF NameRepeats(program.structs) THEN outcome.msg = "DuplicateStruct"
        ELSE IF NameRepeats(program.functions) THEN outcome.msg = "DuplicateFunction"
        ELSE IF \E i \in 1..Len(program.functions) : NameRepeats(program.functions[i].params)
        THEN outcome.msg = "DuplicateVariable"
        ELSE stage = "checked"

\* C16: a cast `e as T` of an expression of type A is accepted exactly when A = T or
\* {A, T} is {I32, F32}, {I32, I64} or {F32, F64}, and then has type T; every other
\* cast, I32 to F64 among them, fails with TypeMismatch.
CastBetweenNeighbours ==
    (stage = "expression checked" /\ focus.about = "cast") =>
        LET target == focus.expression.target_type
            allowed == \/ focus.from = target
                       \/ {focus.from.t, target.t} \in {{"I32", "F32"}, {"I32", "I64"}, {"F32", "F64"}}
        IN  IF allowed
            THEN outcome.ok /\ outcome.ty = target
            ELSE ~outcome.ok /\ outcome.err.kind = "TypeMismatch"
                 /\ outcome.err.expected = target /\ outcome.err.found = focus.from

\* C16 witness: `v as f64` of an i32 variable was rejected although i32 widens to f64
\* at a typed boundary
I32NotCastToF64 ==
    /\ stage = "expression checked"
    /\ focus.about = "cast"
    /\ focus.from.t = "I32"
    /\ focus.expression.target_type.t = "F64"
    /\ focus.expression.expression.k = "Variable"
    /\ ~outcome.ok
    /\ outcome.err.kind = "TypeMismatch"

\* whether a statement among ss assigns to name
RECURSIVE Assigned(_, _)
Assigned(ss, name) ==
    \E i \in 1..Len(ss) :
        CASE ss[i].k = "Assignment" -> ss[i].name = name
          [] ss[i].k = "Block" -> Assigned(ss[i].statements, name)
          [] ss[i].k = "While" -> Assigned(ss[i].body, name)
          [] ss[i].k = "If" ->
                \/ Assigned(ss[i].then_branch, name)
                \/ ss[i].else_branch # None /\ Assigned(ss[i].else_branch[1], name)
          [] OTHER -> FALSE

\* the statements ss of a function of body all, without the declarations, at any
\* depth, of a name that body neither refers to nor assigns
RECURSIVE WithoutUnused(_, _)
WithoutUnused(ss, all) ==
    IF ss = <<>> THEN <<>>
    ELSE LET s == Head(ss)
             rest == WithoutUnused(Tail(ss), all)
         IN  CASE s.k = "VariableDeclaration" ->
                    IF Referenced(all, s.name) \/ Assigned(all, s.name) THEN <<s>> \o rest ELSE rest
               [] s.k = "Block" -> <<Block(WithoutUnused(s.statements, all))>> \o rest
               [] s.k = "While" -> <<While(s.condition, WithoutUnused(s.body, all))>> \o rest
               [] s.k = "If" ->
                    <<If(s.condition, WithoutUnused(s.then_branch, all),
                         IF s.else_branch = None THEN None
                         ELSE Some(WithoutUnused(s.else_branch[1], all)))>> \o rest
               [] OTHER -> <<s>> \o rest

\* C17: after dead-code elimination a function holds no declaration, at any nesting
\* depth, of a name with no usage in the function (a reference in any expression, or
\* the target of an assignment), and every other statement is kept, in order.
UnusedDeclarationsRemoved ==
    stage = "eliminated" =>
        /\ outcome.body = WithoutUnused(focus.body, focus.body)
        /\ \A name \in DeclaredIn(outcome.body) :
                Referenced(focus.body, name) \/ Assigned(focus.body, name)

\* C18: each optimizer pass returns for every program; constant folding returns an
\* expression for every pair of i32 literal operands, 2147483647 + 1 and
\* -2147483648 / -1 among them, and inlining returns when a function calls itself:
\* each function is still there, the calls of a caller replaced once.
EveryPassReturns ==
    /\ stage = "folded" => outcome # Panicked
    /\ stage = "inlined" =>
          /\ Len(program.functions) = Len(focus.functions)
          /\ \A i \in 1..Len(program.functions) :
                /\ program.functions[i].name = focus.functions[i].name
                /\ focus.functions[i].name = "again" =>
                      program.functions[i].body
                        = <<VariableDeclaration("a", I32, Variable("a"), FALSE)>> \o focus.functions[i].body

\* C19: every runtime failure of the interpreter (an undefined variable, an undefined
\* function, a field access on a value that is no struct, an unknown field, a division
\* by zero, a builtin called with missing or wrongly typed arguments) is returned by
\* interpret_program as an error: the host does not crash and the failure is not
\* passed over.
RuntimeFailuresReturned ==
    (stage = "finished" /\ focus.about = "failure" /\ focus.kind # "none") => outcome.status = "error"

\* C19, the part that holds: the failures other than those of a builtin's arguments are
\* returned as an error with their message, from wherever in main or in a function
\* main calls they happen, and an expression that does not fail ends the run without
\* an error.
EvaluationFailuresReturned ==
    (stage = "finished" /\ focus.about = "failure"
     /\ focus.kind \notin {"missing argument", "wrongly typed argument"}) =>
        outcome = CASE focus.kind = "undefined variable" -> [status |-> "error", msg |-> "Undefined variable"]
                    [] focus.kind = "undefined function" -> [status |-> "error", msg |-> "Undefined function"]
                    [] focus.kind = "field of non-struct" ->
                            [status |-> "error", msg |-> "Field access on non-struct value"]
                    [] focus.kind = "unknown field" -> [status |-> "error", msg |-> "Undefined field"]
                    [] focus.kind = "division by zero" -> [status |-> "error", msg |-> "Division by zero"]
                    [] focus.kind = "none" -> [status |-> "ok", msg |-> ""]

\* C20: when the text holds a character that starts no lexical rule, the lexer gives
\* for it an item that differs from the one it gives at the end of the text, and
\* parsing the text fails: a program followed by such a character is not parsed as
\* if the text ended there.
LexicalErrorFailsParse ==
    (stage \in {"parsed", "parse failed"} /\ focus.about = "source" /\ focus.bad) =>
        /\ stage = "parse failed"
        /\ Lexer_next(focus.text, focus.at).token # Lexer_next(focus.text, Len(focus.text) + 1).token

\* C20, the part that holds: a text without such a character parses to its program,
\* and a character that starts no rule inside a function or a struct declaration
\* makes the parse fail; put before or after a complete declaration, the text parses
\* to the declarations before it and nothing is reported.
ParsedUpToLexicalError ==
    (stage \in {"parsed", "parse failed"} /\ focus.about = "source") =>
        \A before \in {parse_program(NewParser(SubSeq(focus.clean, 1, focus.at - 1)), <<>>, <<>>)} :
            IF ~focus.bad THEN stage = "parsed"
            ELSE /\ (stage = "parsed") = before.ok
                 /\ stage = "parsed" => program = before.val

\* the statements the names stand for
Statements(names) == [i \in 1..Len(names) |-> Written(names[i]).ast]

\* C21: parsing `if c { S1 } else { S2 }` yields an If whose then-branch is S1 and
\* whose else-branch is S2, parsing `while c { S }` yields a While whose body is S,
\* and the statements after the closing brace are later statements of the enclosing
\* block.
BranchesHoldTheirStatements ==
    (stage \in {"parsed", "parse failed"} /\ focus.about = "branches" /\ focus.kind # "if") =>
        /\ stage = "parsed"
        /\ program.functions[1].body
             = <<IF focus.kind = "while"
                 THEN While(Written(focus.condition).ast, Statements(focus.s1))
                 ELSE If(Written(focus.condition).ast, Statements(focus.s1),
                         Some(Statements(focus.s2)))>>
               \o Statements(focus.rest)

\* C21, what the parser does instead: the braces of a branch or body are parsed as a
\* Block statement inside it, and the statements up to the closing brace of the
\* enclosing block follow it inside the branch; an `else` after the braces is met
\* where a statement is expected and the parse fails.
BracesBecomeBlockInBranch ==
    (stage \in {"parsed", "parse failed"} /\ focus.about = "branches") =>
        IF focus.kind = "if else"
        THEN stage = "parse failed" /\ outcome.msg = "UnexpectedToken"
        ELSE /\ stage = "parsed"
             /\ \A inside \in {<<Block(Statements(focus.s1))>> \o Statements(focus.rest)} :
                    program.functions[1].body
                      = <<IF focus.kind = "while" THEN While(Written(focus.condition).ast, inside)
                          ELSE If(Written(focus.condition).ast, inside, None)>>

\* C22: for every Type the parser can produce, parsing the text printed by the
\* Type's Display gives back the same Type.
PrintedTypeParsesBack ==
    (stage \in {"parsed", "parse failed"} /\ focus.about = "type") =>
        /\ stage = "parsed"
        /\ program.functions[1].return_type = focus.ty
        /\ program.functions[1].params = <<Parameter("a", focus.ty)>>

\* C22, its case: a struct type whose name begins like a keyword went through Display
\* and parse_type
StructNameParsedBack ==
    /\ stage = "parsed" /\ focus.about = "type" /\ focus.ty = StructT("i32x")
    /\ program.functions[1].return_type = StructT("i32x")

\* the run of the program optimized as it was, but for the inlining pass
RunWithoutInlining ==
    interpret_program(optimize([DefaultOptimizer EXCEPT !.inline_functions = FALSE], focus, overflow_checks),
                      NewInterpreter(<<>>, FALSE, overflow_checks, MaxFuel))

\* C23: when a statement-position call is inlined, the value of the callee's Return is
\* discarded as at the call site: the calling function goes on to execute the statements
\* that follow the call site, and its own result is the one it had without inlining.
InlinedReturnDiscarded ==
    (stage = "finished" /\ outcome.status # "fuel") =>
        \A u \in {RunWithoutInlining} :
            u.status # "fuel" =>
                /\ interp.main_returned = u.st.main_returned
                /\ interp.out = u.st.out

\* C24: when a Return statement is executed, the function activation ends at once and
\* the call's result is the Return's value, wherever the Return sits (top level of the
\* body, an if branch, a while body, a block); no statement after it runs.
ReturnEndsActivation ==
    (stage = "finished" /\ focus.about = "return") =>
        /\ outcome.status = "ok"
        /\ interp.main_returned = IntegerV(7)
        /\ interp.out = <<>>

\* C24, what holds: a Return among the statements of the function body ends the
\* activation with its value; a Return inside a branch, a loop body or a block ends
\* nothing: the statements after it run, in the branch and in the function body, and
\* the call's result is that of the body's last statement (the value of a Return or of
\* a block ending in one, Void otherwise).
ReturnEndsBodyAtTopLevelOnly ==
    (stage = "finished" /\ focus.about = "return") =>
        /\ outcome.status = "ok"
        /\ IF focus.place = "top"
           THEN interp.main_returned = IntegerV(7) /\ interp.out = <<>>
           ELSE /\ interp.out
                     = (IF focus.place = "if" THEN <<<<"print_i32", <<IntegerV(2)>>>>>> ELSE <<>>)
                       \o (IF focus.rest # <<>> /\ focus.rest[1].k = "Expression"
                           THEN <<<<"print_i32", <<IntegerV(1)>>>>>> ELSE <<>>)
                /\ interp.main_returned
                     = IF focus.rest # <<>> /\ focus.rest[Len(focus.rest)].k = "Return" THEN IntegerV(0)
                       ELSE IF focus.rest = <<>> /\ focus.place = "block" THEN IntegerV(7)
                       ELSE VoidV

\* the builtin calls of the run so far that went to one of the names, in order
CallsOf(names) == SelectSeq(interp.out, LAMBDA call : call[1] \in names)

\* the first poll the window answers with "closed", 0 when it answers none so
FirstClosed(polls) ==
    IF \E i \in DOMAIN polls : ~polls[i]
    THEN CHOOSE i \in DOMAIN polls : ~polls[i] /\ \A j \in 1..(i - 1) : polls[j]
    ELSE 0

\* C25: a While evaluates its condition before every iteration and stops when it is
\* not truthy; after each complete execution of the body, and only when a graphics
\* capability is active, the capability is polled exactly once; a poll that reports
\* the window closed sets should_exit and ends the loop before the condition is
\* evaluated again; with no capability and should_exit false the loop ends only
\* through a falsy condition or a runtime error.
LoopPollsOncePerBody ==
    (stage = "looped" /\ focus.body \in {"count", "failing", "returning"} /\ ~focus.should_exit
     /\ outcome.status # "fuel") =>
        LET conditions == Len(CallsOf({"get_time"}))
            started == Len(CallsOf({"print_i32"}))
            complete == IF outcome.status = "error" THEN started - 1 ELSE started
            closed == FirstClosed(focus.polls)
            both == CallsOf({"get_time", "print_i32"})
        IN  /\ \A i \in DOMAIN both : both[i][1] = IF i % 2 = 1 THEN "get_time" ELSE "print_i32"
            /\ \A i \in DOMAIN both : both[i][1] = "get_time" => (i = Len(both)) = (i \div 2 >= focus.limit)
            /\ interp.poll_count = IF focus.engine THEN complete ELSE 0
            /\ interp.should_exit = (focus.engine /\ closed \in 1..complete)
            /\ IF interp.should_exit THEN complete = closed /\ conditions = complete /\ outcome.status = "ok"
               ELSE IF outcome.status = "error"
               THEN focus.body = "failing" /\ outcome.msg = "Division by zero" /\ conditions = started
               ELSE outcome.status = "ok" /\ conditions = complete + 1 /\ complete = focus.limit

\* C25, its case: with a window, the first poll answered "closed" after the first
\* body, and the loop ended there though the clock had not reached the limit
ClosedWindowEndedLoop ==
    /\ stage = "looped" /\ focus.body = "count" /\ focus.engine /\ ~focus.should_exit
    /\ focus.polls = <<FALSE>> /\ focus.limit = 2
    /\ interp.should_exit /\ interp.poll_count = 1
    /\ Len(CallsOf({"get_time"})) = 1 /\ Len(CallsOf({"print_i32"})) = 1

\* C26: should_exit is never cleared once set, every While entered afterwards whose
\* condition is truthy executes its body exactly once and then ends, and statements
\* outside loops keep executing normally.
ExitRequestSticks ==
    (stage = "looped" /\ outcome.status # "fuel") =>
        /\ focus.should_exit => interp.should_exit
        /\ (focus.engine /\ FirstClosed(focus.polls) \in 1..interp.poll_count) => interp.should_exit
        /\ (focus.should_exit /\ focus.body \notin {"block", "if"}) =>
                /\ outcome.status = "ok"
                /\ Len(CallsOf({"get_time"})) = 1
                /\ Len(CallsOf({"print_i32"})) = IF focus.limit > 0 THEN 1 ELSE 0
                /\ Len(CallsOf({"print_string"})) = IF focus.limit > 0 /\ focus.body = "nested" THEN 1 ELSE 0
                /\ interp.variables["x"] = IntegerV(IF focus.limit > 0 THEN 1 ELSE 0)
        /\ (focus.should_exit /\ focus.body \in {"block", "if"}) =>
                \A r \in {interpret_statement(focus.statement,
                                              [NewInterpreter(focus.polls, FALSE, overflow_checks, MaxFuel)
                                                  EXCEPT !.variables = focus.variables,
                                                         !.graphics_engine = focus.engine])} :
                    /\ outcome = [status |-> r.status, msg |-> r.msg]
                    /\ interp = [r.st EXCEPT !.should_exit = TRUE]

\* C26, its case: a while was entered with should_exit set, a window that stays open
\* and a condition true for two iterations; its body ran once, and so did the body
\* of the while inside it
LoopRanOnceAfterExit ==
    /\ stage = "looped" /\ focus.should_exit /\ focus.body = "nested" /\ focus.limit = 2
    /\ focus.polls = <<>>
    /\ interp.should_exit
    /\ Len(CallsOf({"print_i32"})) = 1 /\ Len(CallsOf({"print_string"})) = 1

\* the program as it was parsed declares a function under a builtin's name
Shadowing == \E i \in DOMAIN focus.functions : focus.functions[i].name \in BuiltinNames

\* the body of a declared function printed its "user"
UserBodyRan == \E i \in DOMAIN interp.out : interp.out[i] = <<"print_string", <<StringV("user")>>>>

\* C27: a call whose name is in the builtin set is always executed by the builtin,
\* never by a user function declared with the same name, in every program the
\* interpreter runs, the output of the optimizer included.
BuiltinNeverShadowed ==
    (stage = "finished" /\ Shadowing) =>
        /\ ~UserBodyRan
        /\ \A i \in DOMAIN interp.calls : interp.calls[i].name \notin BuiltinNames
        /\ \E i \in DOMAIN interp.out : interp.out[i][1] = focus.functions[1].name

\* C27, what holds: the interpreter never calls the declared function, and the builtin
\* is what runs unless the call stood as a statement of main's body and the name does
\* not begin with "print": that call was replaced by the declared function's body
\* before the run.
BuiltinWinsUnlessInlined ==
    (stage = "finished" /\ Shadowing) =>
        /\ \A i \in DOMAIN interp.calls : interp.calls[i].name \notin BuiltinNames
        /\ \A inlined \in {/\ focus.functions[2].body[1].k = "Expression"
                           /\ focus.functions[1].name # "print_i32"} :
              /\ UserBodyRan = inlined
              /\ (\E i \in DOMAIN interp.out : interp.out[i][1] = focus.functions[1].name) = ~inlined

\* the static types whose values a runtime value may be
TypesOfValue(v) ==
    CASE v.tag = "Integer" -> {I32, I64}
      [] v.tag = "Float" -> {F32, F64}
      [] v.tag = "Boolean" -> {Bool}
      [] v.tag = "String" -> {StringT}
      [] v.tag = "Struct" -> {StructT(v.name)}
      [] OTHER -> {}

\* check_expression applied to `x op y`, x of type l and y of type r
CheckedOperation(l, op, r) ==
    check_expression(BinaryExpression(Variable("x"), op, Variable("y")),
                     [NewTypeChecker EXCEPT !.variables =
                         Insert(Insert(EmptyMap, "x", VariableInfo(l, "Available")),
                                "y", VariableInfo(r, "Available"))])

\* C28: every binary expression the type checker accepts evaluates, on operand values
\* of the checked types, to a value of the checked result type or to a division-by-zero
\* error; it never fails with a runtime type-mismatch or unsupported-operation error.
AcceptedOperationEvaluates ==
    stage = "operated" =>
        \A l \in TypesOfValue(focus.left), r \in TypesOfValue(focus.right) :
            \A c \in {CheckedOperation(l, focus.operator, r)} :
                c.ok => \/ outcome.status = "ok" /\ c.ty \in TypesOfValue(outcome.val)
                        \/ outcome = ValErr("Division by zero")

\* C28, what holds: an accepted operation on two numbers evaluates to a value of the
\* checked type, to the division-by-zero error, or aborts on an i32 overflow (in a
\* build that checks it, and on i32::MIN / -1); an accepted && or || evaluates to a
\* Boolean. The accepted
\* operations on two Bool, two String or two Struct operands with an arithmetic or a
\* comparison operator are not covered.
AcceptedNumericEvaluates ==
    stage = "operated" =>
        \A l \in TypesOfValue(focus.left), r \in TypesOfValue(focus.right) :
            \A c \in {CheckedOperation(l, focus.operator, r)} :
                (c.ok /\ (focus.operator \in LogicalOps \/ {l, r} \subseteq NumericTypes)) =>
                    \/ outcome.status = "ok" /\ c.ty \in TypesOfValue(outcome.val)
                    \/ outcome = ValErr("Division by zero")
                    \/ outcome.status = "panic"

\* the fields the initialization in main gives, as <<name, value>> pairs
GivenFields == focus.functions[1].body[1].value.fields

\* C29: a struct initialization is accepted only when every declared field is given a
\* value (and every given field is declared, with a compatible type), so that a field
\* access that type-checks on the resulting value never fails at runtime with an
\* undefined-field error.
AcceptedInitializationComplete ==
    (focus.structs # <<>> /\ stage \notin {"parsed", "rejected"}) =>
        /\ {GivenFields[i][1] : i \in DOMAIN GivenFields}
             = {focus.structs[1].fields[i].name : i \in DOMAIN focus.structs[1].fields}
        /\ \A i \in DOMAIN GivenFields : GivenFields[i][2].k = "IntegerLiteral"
        /\ stage = "finished" => outcome.status = "ok"

\* C29, what holds: the initialization is accepted exactly when every field it gives is
\* declared and given a value of a compatible type, whether or not it gives them all,
\* and the run fails with the undefined-field error exactly when the field read was
\* not given.
GivenFieldsChecked ==
    (focus.structs # <<>> /\ stage # "parsed") =>
        /\ (stage = "rejected") = (\E i \in DOMAIN GivenFields :
                                      GivenFields[i][1] = "c" \/ GivenFields[i][2].k # "IntegerLiteral")
        /\ stage = "finished" =>
              outcome = IF \E i \in DOMAIN GivenFields :
                              GivenFields[i][1] = focus.functions[1].body[2].value.field_name
                        THEN [status |-> "ok", msg |-> ""]
                        ELSE [status |-> "error", msg |-> "Undefined field"]

\* the statement assigns to x, or is an if or a while that holds nothing else
OnlyAssigns(s) == s.k \in {"Assignment", "If", "While"} \/ (s.k = "Block" /\ s.statements[1].k = "Assignment")

\* C30: in the type checker the Moved state is absorbing within a scope: once a
\* variable is Moved, no later statement of the same or a nested block makes it
\* Available or Borrowed again; an Assignment `x = e` to a Moved x is accepted but
\* leaves x Moved, so a read of x after it still fails with UseAfterMove; only the
\* table restore at the exit of the block in which the move happened undoes it.
MovedIsAbsorbing ==
    (stage = "statement checked" /\ focus.about = "moved") =>
        CASE focus.form = "later" ->
                /\ checker.variables["x"].state = "Moved"
                /\ OnlyAssigns(focus.statement) => outcome.ok
                /\ ~outcome.ok => outcome.err.kind \in {"UseAfterMove", "DuplicateVariable"}
          [] focus.form = "block" ->
                /\ ~outcome.ok
                /\ checker.variables["x"].state = "Moved"
                /\ outcome.err.kind \in {"UseAfterMove", "DuplicateVariable"}
                /\ (\A i \in DOMAIN focus.between : OnlyAssigns(focus.between[i])) =>
                        outcome.err.kind = "UseAfterMove" /\ outcome.err.name = "x"
          [] focus.form = "nested" ->
                (\A i \in DOMAIN focus.between : OnlyAssigns(focus.between[i])) => outcome.ok

\* C30, its case: x was moved, then assigned to in the same block and in a nested one,
\* and the read that followed failed with UseAfterMove, x still Moved
ReadAfterAssignmentRejected ==
    /\ stage = "statement checked" /\ focus.about = "moved" /\ focus.form = "block"
    /\ focus.between = <<Assignment("x", IntegerLiteral(1)), Block(<<Assignment("x", Variable("y"))>>)>>
    /\ ~outcome.ok /\ outcome.err.kind = "UseAfterMove"
    /\ checker.variables["x"].state = "Moved"

=============================================================================
